---------------------------- MODULE Spec2Model ----------------------------
(***************************************************************************)
(* A model of sppark's NTT driver (class NTT: bit_rev, LDE_powers,         *)
(* NTT_internal, Base, LDE, LDE_launch, LDE_aux) and of the kernels it     *)
(* launches (bit_rev_permutation, get_intermediate_root,                   *)
(* LDE_distribute_powers, LDE_spread_distribute_powers).                   *)
(*                                                                         *)
(* Field elements are residues modulo the prime Q.  The driver is generic  *)
(* over the field; the model instantiates it with a small prime whose      *)
(* multiplicative group has a 2-power subgroup large enough for every      *)
(* domain the model explores.  The root tables have the shape of           *)
(* ntt/parameters/baby_bear.h: entry i is a primitive 2^i-th root of       *)
(* unity, its inverse, and the inverse of 2^i.                             *)
(*                                                                         *)
(* Vectors are sequences; element idx of the C array is v[idx + 1].        *)
(***************************************************************************)
EXTENDS Integers, Sequences, FiniteSets, TLC

----------------------------------------------------------------------------
(* Bounds of the exploration *)

\* largest lg_domain_size a caller passes
MaxLg == 2
\* largest lg_blowup a caller passes
MaxLgBlowup == 2
\* largest value of the one non-zero element of an input vector
MaxVal == 1
\* streaming multiprocessors of the modelled device
multiProcessorCount == 6

----------------------------------------------------------------------------
(* The field: fr_t *)

Q == 17

Fr == 0 .. (Q - 1)

FAdd(a, b) == (a + b) % Q

FSub(a, b) == (a + Q - b) % Q

FMul(a, b) == (a * b) % Q

RECURSIVE FPow(_, _)
FPow(a, k) == IF k = 0 THEN 1 ELSE FMul(a, FPow(a, k - 1))

\* coset generator and its inverse
group_gen == 3

group_gen_inverse == 6

\* 2-adicity of the field: the tables have S + 1 entries
S == 4

forward_roots_of_unity == << 1, 16, 13, 9, 3 >>

inverse_roots_of_unity == << 1, 16, 4, 2, 6 >>

domain_size_inverse == << 1, 9, 13, 15, 16 >>

\* The tables are what the transform needs them to be.
TablesConsistent ==
    /\ FMul(group_gen, group_gen_inverse) = 1
    /\ \A i \in 0 .. S :
          /\ FPow(forward_roots_of_unity[i + 1], 2 ^ i) = 1
          /\ i > 0 => FPow(forward_roots_of_unity[i + 1], 2 ^ (i - 1)) # 1
          /\ FMul(forward_roots_of_unity[i + 1], inverse_roots_of_unity[i + 1]) = 1
          /\ FMul(domain_size_inverse[i + 1], (2 ^ i) % Q) = 1

----------------------------------------------------------------------------
(* parameters.cuh *)

MAX_LG_DOMAIN_SIZE == 3

LG_WINDOW_SIZE == (MAX_LG_DOMAIN_SIZE + 1) \div 2

WINDOW_SIZE == 2 ^ LG_WINDOW_SIZE

WINDOW_NUM == (MAX_LG_DOMAIN_SIZE + LG_WINDOW_SIZE - 1) \div LG_WINDOW_SIZE

\* partial_group_gen_powers[w][d] = gen^(d * WINDOW_SIZE^w); row w is
\* partial_group_gen_powers(intt)[w + 1], digit d is [d + 1].
partial_group_gen_powers(intt) ==
    LET gen == IF intt THEN group_gen_inverse ELSE group_gen
    IN  [w \in 1 .. WINDOW_NUM |->
           [d \in 1 .. WINDOW_SIZE |->
               FPow(gen, (d - 1) * (WINDOW_SIZE ^ (w - 1)))]]

----------------------------------------------------------------------------
(* Index arithmetic of the kernels *)

\* template bit_rev(i, nbits): __brev(i) >> (32 - nbits), the low nbits bits
\* of i in reverse order.
RECURSIVE bit_rev_index(_, _)
bit_rev_index(i, nbits) ==
    IF nbits = 0 THEN 0
    ELSE (i % 2) * (2 ^ (nbits - 1)) + bit_rev_index(i \div 2, nbits - 1)

\* get_intermediate_root(pow, roots): windowed exponentiation.
RECURSIVE get_intermediate_root_loop(_, _, _, _)
get_intermediate_root_loop(root, pow, off, roots) ==
    LET p == pow \div WINDOW_SIZE
    IN  IF p = 0 THEN root
        ELSE get_intermediate_root_loop(
                 FMul(root, roots[off + 2][(p % WINDOW_SIZE) + 1]),
                 p, off + 1, roots)

get_intermediate_root(pow, roots) ==
    get_intermediate_root_loop(roots[1][(pow % WINDOW_SIZE) + 1], pow, 0, roots)

\* the rows roots[off] that get_intermediate_root(pow, roots) reads
RECURSIVE get_intermediate_root_rows(_, _)
get_intermediate_root_rows(pow, off) ==
    IF pow \div WINDOW_SIZE = 0 THEN {off}
    ELSE {off} \cup get_intermediate_root_rows(pow \div WINDOW_SIZE, off + 1)

\* the loop of get_intermediate_roots: while (off--) { win -= LG_WINDOW_SIZE;
\* root0 *= roots[off][(idx0 >> win) % WINDOW_SIZE]; the same for root1 }
RECURSIVE get_intermediate_roots_loop(_, _, _, _, _, _, _)
get_intermediate_roots_loop(root0, root1, idx0, idx1, off, win, roots) ==
    IF off = 0 THEN << root0, root1 >>
    ELSE LET w == win - LG_WINDOW_SIZE
         IN  get_intermediate_roots_loop(
                 FMul(root0, roots[off][((idx0 \div (2 ^ w)) % WINDOW_SIZE) + 1]),
                 FMul(root1, roots[off][((idx1 \div (2 ^ w)) % WINDOW_SIZE) + 1]),
                 idx0, idx1, off - 1, w, roots)

\* get_intermediate_roots looking up idx0 for both roots
get_intermediate_roots_SameIndex(idx0, idx1, roots) ==
    LET win == (WINDOW_NUM - 1) * LG_WINDOW_SIZE
        off == WINDOW_NUM - 1
    IN  get_intermediate_roots_loop(roots[off + 1][(idx0 \div (2 ^ win)) + 1],
                                    roots[off + 1][(idx0 \div (2 ^ win)) + 1],
                                    idx0, idx0, off, win, roots)

\* get_intermediate_roots(root0, root1, idx0, idx1, roots): << root0, root1 >>
get_intermediate_roots(idx0, idx1, roots) ==
    LET win == (WINDOW_NUM - 1) * LG_WINDOW_SIZE
        off == WINDOW_NUM - 1
    IN  get_intermediate_roots_loop(roots[off + 1][(idx0 \div (2 ^ win)) + 1],
                                    roots[off + 1][(idx1 \div (2 ^ win)) + 1],
                                    idx0, idx1, off, win, roots)

----------------------------------------------------------------------------
(* Device memory: a sequence of cells; a pointer is an offset into it. *)

\* content of a cell that was allocated and never written
Uninit == -1

\* a vector given as a function, as the sequence of its values
Vec(f) == SubSeq(f, 1, Len(f))

Region(mem, base, n) == SubSeq(mem, base + 1, base + n)

WriteRegion(mem, base, vec) ==
    Vec([p \in 1 .. Len(mem) |->
            IF p > base /\ p <= base + Len(vec) THEN vec[p - base] ELSE mem[p]])

lg2(n) == CHOOSE k \in 0 .. 31 : 2 ^ k <= n /\ n < 2 ^ (k + 1)

WARP_SZ == 32

----------------------------------------------------------------------------
(* Kernels, by the values they leave in memory *)

\* bit_rev_permutation<<<gridDim, blockDim>>>(d_out, d_in, lg_domain_size):
\* in is the source vector, out the previous content of the destination
\* (the same vector when d_out == d_in).  One thread per index.
bit_rev_permutation(out, in, inplace, lg_domain_size, gridDim, blockDim) ==
    LET threads == gridDim * blockDim
        rev(idx) == bit_rev_index(idx, lg_domain_size)
    IN  IF gridDim = 1 /\ blockDim = 2 ^ lg_domain_size
        THEN \* every thread: t = d_in[idx]; d_out[rev] = t
             Vec([j \in 1 .. Len(out) |->
                 IF \E idx \in 0 .. threads - 1 : rev(idx) = j - 1
                 THEN in[(CHOOSE idx \in 0 .. threads - 1 : rev(idx) = j - 1) + 1]
                 ELSE out[j]])
        ELSE \* thread idx acts when idx < rev, or copies a fixed point
             LET copy(idx) == ~inplace /\ idx = rev(idx)
                 acts(idx) == idx < rev(idx) \/ copy(idx)
             IN  Vec([j \in 1 .. Len(out) |->
                     IF \E idx \in 0 .. threads - 1 : acts(idx) /\ rev(idx) = j - 1
                     THEN in[(CHOOSE idx \in 0 .. threads - 1 :
                                  acts(idx) /\ rev(idx) = j - 1) + 1]
                     ELSE IF j - 1 < threads /\ acts(j - 1) /\ ~copy(j - 1)
                     THEN in[rev(j - 1) + 1]
                     ELSE out[j]])

\* NTT::bit_rev: the launch shape chosen for the domain size (the grouped
\* kernel serves domains of bsize * Z_COUNT elements and more).
bit_rev(out, in, inplace, lg_domain_size) ==
    LET domain_size == 2 ^ lg_domain_size
    IN  IF domain_size <= 1024
        THEN bit_rev_permutation(out, in, inplace, lg_domain_size, 1, domain_size)
        ELSE bit_rev_permutation(out, in, inplace, lg_domain_size,
                                 domain_size \div WARP_SZ, WARP_SZ)

\* LDE_distribute_powers<<<gridDim, blockDim>>>(d_inout, lg_blowup, bitrev,
\* gen_powers, ext_pow): one thread per index, the domain size is the
\* launch size.
LDE_distribute_powers(inout, lg_blowup, bitrev, gen_powers, ext_pow, gridDim, blockDim) ==
    LET threads == gridDim * blockDim
        lg_domain_size == lg2(threads)
        pow0(idx) == IF bitrev THEN bit_rev_index(idx, lg_domain_size) ELSE idx
        pow(idx) == IF ext_pow THEN pow0(idx) * (2 ^ lg_blowup) ELSE pow0(idx)
    IN  Vec([j \in 1 .. Len(inout) |->
            IF j - 1 < threads
            THEN FMul(inout[j], get_intermediate_root(pow(j - 1), gen_powers))
            ELSE inout[j]])

\* NTT::LDE_powers (private): launch shape by domain size.
LDE_powers(inout, intt, bitrev, lg_domain_size, lg_blowup, ext_pow) ==
    LET domain_size == 2 ^ lg_domain_size
        gen_powers == partial_group_gen_powers(intt)
    IN  IF domain_size < WARP_SZ
        THEN LDE_distribute_powers(inout, lg_blowup, bitrev, gen_powers,
                                   ext_pow, 1, domain_size)
        ELSE IF domain_size < 512
        THEN LDE_distribute_powers(inout, lg_blowup, bitrev, gen_powers,
                                   ext_pow, domain_size \div WARP_SZ, WARP_SZ)
        ELSE LDE_distribute_powers(inout, lg_blowup, bitrev, gen_powers,
                                   ext_pow, domain_size \div 512, 512)

RECURSIVE FSum(_, _)
FSum(f, m) == IF m = 0 THEN 0 ELSE FAdd(FSum(f, m - 1), f[m - 1])

\* The transform of a vector in natural order, output in natural order:
\* out[k] = sum_j x[j] * root^(j*k), scaled by 1/n for the inverse.
DFT(x, lg_domain_size, intt) ==
    LET n == 2 ^ lg_domain_size
        root == IF intt THEN inverse_roots_of_unity[lg_domain_size + 1]
                ELSE forward_roots_of_unity[lg_domain_size + 1]
        pw == [e \in 0 .. n - 1 |-> FPow(root, e)]
        scale == IF intt THEN domain_size_inverse[lg_domain_size + 1] ELSE 1
    IN  Vec([k \in 1 .. n |->
            FMul(scale,
                 FSum([j \in 0 .. n - 1 |-> FMul(x[j + 1], pw[(j * (k - 1)) % n])],
                      n))])

\* CT_NTT: Cooley-Tukey, bit-reversed at start, natural at end.
CT_NTT(inout, lg_domain_size, intt) ==
    LET n == 2 ^ lg_domain_size
    IN  DFT(Vec([j \in 1 .. n |-> inout[bit_rev_index(j - 1, lg_domain_size) + 1]]),
            lg_domain_size, intt)

\* GS_NTT: Gentleman-Sande, natural at start, bit-reversed at end.
GS_NTT(inout, lg_domain_size, intt) ==
    LET n == 2 ^ lg_domain_size
        y == DFT(inout, lg_domain_size, intt)
    IN  Vec([j \in 1 .. n |-> y[bit_rev_index(j - 1, lg_domain_size) + 1]])

\* One pass of the loop of LDE_spread_distribute_powers over the whole grid:
\* every thread reads in[idx] (times the shift factor) into its block's
\* exchange buffer, the barrier, then every thread writes blowup cells.
LDE_spread_iteration(mem, out, in, gen_powers, lg_domain_size, lg_blowup, perform_shift, ext_pow, gridDim, blockDim, iter) ==
    LET blowup == 2 ^ lg_blowup
        stride == gridDim * blockDim
        r(idx) ==
            IF perform_shift
            THEN FMul(mem[in + idx + 1],
                      get_intermediate_root(
                          bit_rev_index(idx, lg_domain_size +
                                             (IF ext_pow THEN lg_blowup ELSE 0)),
                          gen_powers))
            ELSE mem[in + idx + 1]
        lo == out + iter * stride * blowup
        hi == lo + stride * blowup
    IN  Vec([p \in 1 .. Len(mem) |->
            IF p - 1 >= lo /\ p - 1 < hi
            THEN LET rel == p - 1 - lo
                     blockIdx == rel \div (blockDim * blowup)
                     offset == rel % (blockDim * blowup)
                     threadIdx == offset % blockDim
                     thread_pos == threadIdx % blowup
                     idx0 == blockDim * blockIdx + iter * stride
                 IN  \* exchange[offset >> lg_blowup] holds r(idx0 + (offset >> lg_blowup))
                     IF thread_pos = 0 THEN r(idx0 + (offset \div blowup)) ELSE 0
            ELSE mem[p]])

RECURSIVE LDE_spread_loop(_, _, _, _, _, _, _, _, _, _, _, _)
LDE_spread_loop(mem, out, in, gen_powers, lg_domain_size, lg_blowup, perform_shift, ext_pow, gridDim, blockDim, iter, iters) ==
    IF iter >= iters THEN mem
    ELSE LDE_spread_loop(
             LDE_spread_iteration(mem, out, in, gen_powers, lg_domain_size,
                                  lg_blowup, perform_shift, ext_pow,
                                  gridDim, blockDim, iter),
             out, in, gen_powers, lg_domain_size, lg_blowup, perform_shift,
             ext_pow, gridDim, blockDim, iter + 1, iters)

\* LDE_spread_distribute_powers<<<gridDim, blockDim>>>: out and in are
\* offsets into mem.
LDE_spread_distribute_powers(mem, out, in, gen_powers, lg_domain_size, lg_blowup, perform_shift, ext_pow, gridDim, blockDim) ==
    LET domain_size == 2 ^ lg_domain_size
        stride == gridDim * blockDim
        iters == domain_size \div (2 ^ lg2(stride))
    IN  LDE_spread_loop(mem, out, in, gen_powers, lg_domain_size, lg_blowup,
                        perform_shift, ext_pow, gridDim, blockDim, 0, iters)

\* NTT::LDE_launch, past its assertion: the launch shape and the kernel.
LDE_launch(mem, ext_domain_data, domain_data, gen_powers, lg_domain_size, lg_blowup, perform_shift, ext_pow) ==
    LET domain_size == 2 ^ lg_domain_size
        kernel_sms == 2 ^ lg2(multiProcessorCount)
        device_max_threads == kernel_sms * 1024
        num_blocks == IF device_max_threads < domain_size THEN kernel_sms
                      ELSE IF domain_size < 1024 THEN 1
                      ELSE domain_size \div 1024
        block_size == IF device_max_threads < domain_size THEN 1024
                      ELSE IF domain_size < 1024 THEN domain_size
                      ELSE 1024
    IN  LDE_spread_distribute_powers(mem, ext_domain_data, domain_data,
                                     gen_powers, lg_domain_size, lg_blowup,
                                     perform_shift, ext_pow,
                                     num_blocks, block_size)

----------------------------------------------------------------------------
(* NTT::NTT_internal *)

InputOutputOrder == {"NN", "NR", "RN", "RR"}

Direction == {"forward", "inverse"}

Type == {"standard", "coset"}

\* SwitchOrder with case NN falling short of its bit reversal
SwitchOrder_NoPreBitRev(order) ==
    CASE order = "NN" -> [pre_bit_rev |-> FALSE, bitrev |-> TRUE,  algorithm |-> "CT"]
      [] order = "NR" -> [pre_bit_rev |-> FALSE, bitrev |-> FALSE, algorithm |-> "GS"]
      [] order = "RN" -> [pre_bit_rev |-> FALSE, bitrev |-> TRUE,  algorithm |-> "CT"]
      [] order = "RR" -> [pre_bit_rev |-> FALSE, bitrev |-> TRUE,  algorithm |-> "GS"]

\* switch (order): whether the input is bit-reversed first, the bitrev flag
\* and the algorithm.
SwitchOrder(order) ==
    CASE order = "NN" -> [pre_bit_rev |-> TRUE,  bitrev |-> TRUE,  algorithm |-> "CT"]
      [] order = "NR" -> [pre_bit_rev |-> FALSE, bitrev |-> FALSE, algorithm |-> "GS"]
      [] order = "RN" -> [pre_bit_rev |-> FALSE, bitrev |-> TRUE,  algorithm |-> "CT"]
      [] order = "RR" -> [pre_bit_rev |-> FALSE, bitrev |-> TRUE,  algorithm |-> "GS"]

\* PostBitRev with the test on the wrong ordering
PostBitRev_WrongOrder(order) == order = "NR"

\* if (order == InputOutputOrder::RR) bit_rev(...)
PostBitRev(order) == order = "RR"

\* NTT_internal is five statements; NTT_step_op is the kernel statement k
\* launches ("none" when its condition is false).
NTT_STEPS == 5

NTT_step_op(k, order, direction, type) ==
    LET intt == direction = "inverse"
    IN  CASE k = 1 -> IF SwitchOrder(order).pre_bit_rev THEN "bit_rev" ELSE "none"
          [] k = 2 -> IF ~intt /\ type = "coset" THEN "LDE_powers" ELSE "none"
          [] k = 3 -> IF SwitchOrder(order).algorithm = "GS" THEN "GS_NTT" ELSE "CT_NTT"
          [] k = 4 -> IF intt /\ type = "coset" THEN "LDE_powers" ELSE "none"
          [] k = 5 -> IF PostBitRev(order) THEN "bit_rev" ELSE "none"

\* NTT_step passing a blowup exponent of 1 to LDE_powers
NTT_step_Blowup(k, d_inout, lg_domain_size, order, direction, type, coset_ext_pow) ==
    LET intt == direction = "inverse"
        bitrev == SwitchOrder(order).bitrev
        op == NTT_step_op(k, order, direction, type)
    IN  CASE op = "none" -> d_inout
          [] op = "bit_rev" -> bit_rev(d_inout, d_inout, TRUE, lg_domain_size)
          [] op = "LDE_powers" ->
                LDE_powers(d_inout, intt, IF k = 2 THEN bitrev ELSE ~bitrev,
                           lg_domain_size, 1, coset_ext_pow)
          [] op = "GS_NTT" -> GS_NTT(d_inout, lg_domain_size, intt)
          [] op = "CT_NTT" -> CT_NTT(d_inout, lg_domain_size, intt)

\* NTT_step with the inverse's twiddle distribution given the flag of the
\* forward one
NTT_step_SameFlag(k, d_inout, lg_domain_size, order, direction, type, coset_ext_pow) ==
    LET intt == direction = "inverse"
        bitrev == SwitchOrder(order).bitrev
        op == NTT_step_op(k, order, direction, type)
    IN  CASE op = "none" -> d_inout
          [] op = "bit_rev" -> bit_rev(d_inout, d_inout, TRUE, lg_domain_size)
          [] op = "LDE_powers" ->
                LDE_powers(d_inout, intt, bitrev, lg_domain_size, 0, coset_ext_pow)
          [] op = "GS_NTT" -> GS_NTT(d_inout, lg_domain_size, intt)
          [] op = "CT_NTT" -> CT_NTT(d_inout, lg_domain_size, intt)

\* the vector after statement k
NTT_step(k, d_inout, lg_domain_size, order, direction, type, coset_ext_pow) ==
    LET intt == direction = "inverse"
        bitrev == SwitchOrder(order).bitrev
        op == NTT_step_op(k, order, direction, type)
    IN  CASE op = "none" -> d_inout
          [] op = "bit_rev" -> bit_rev(d_inout, d_inout, TRUE, lg_domain_size)
          [] op = "LDE_powers" ->
                LDE_powers(d_inout, intt, IF k = 2 THEN bitrev ELSE ~bitrev,
                           lg_domain_size, 0, coset_ext_pow)
          [] op = "GS_NTT" -> GS_NTT(d_inout, lg_domain_size, intt)
          [] op = "CT_NTT" -> CT_NTT(d_inout, lg_domain_size, intt)

RECURSIVE NTT_internal_from(_, _, _, _, _, _, _)
NTT_internal_from(k, d_inout, lg_domain_size, order, direction, type, coset_ext_pow) ==
    IF k > NTT_STEPS THEN d_inout
    ELSE NTT_internal_from(k + 1,
             NTT_step(k, d_inout, lg_domain_size, order, direction, type,
                      coset_ext_pow),
             lg_domain_size, order, direction, type, coset_ext_pow)

\* the vector NTT_internal leaves when no launch fails
NTT_internal(d_inout, lg_domain_size, order, direction, type, coset_ext_pow) ==
    NTT_internal_from(1, d_inout, lg_domain_size, order, direction, type,
                      coset_ext_pow)

\* NTT::LDE_powers (public): LDE_powers(d_inout, false, true,
\* lg_domain_size, 0, stream, ext_pow)
LDE_powers_public(d_inout, lg_domain_size, ext_pow) ==
    LDE_powers(d_inout, FALSE, TRUE, lg_domain_size, 0, ext_pow)

----------------------------------------------------------------------------
(* The host entry points Base, LDE and LDE_aux, statement by statement *)

VARIABLES
    pc,      \* the statement the entry point is at
    call,    \* the arguments of the call
    host,    \* the caller's buffer inout
    input,   \* host as it was when the call was made
    dev,     \* the dev_ptr_t allocation (<<>> when there is none)
    i,       \* Base: the loop counter; LDE, LDE_aux: NTT_internal calls made
    ntt,     \* the running (or last) NTT_internal call
    err,     \* the code of the cuda_error in flight or caught
    status,  \* the RustError returned
    ops,     \* what the call did on the device, in order
    fwd      \* round trips: the descriptor of the forward call

vars == << pc, call, host, input, dev, i, ntt, err, status, ops, fwd >>

\* const int iterations = 10;
iterations == 10

Entries == {"Base", "LDE", "LDE_aux"}

\* cudaError_t values a runtime call can raise
Errors == {"cudaErrorMemoryAllocation", "cudaErrorLaunchFailure"}

\* The vectors callers pass: one non-zero element at most.
Inputs(lg) ==
    { [j \in 1 .. 2 ^ lg |-> IF j = k THEN c ELSE 0] :
          k \in 1 .. 2 ^ lg, c \in 0 .. MaxVal }

NoCall ==
    [entry |-> "-", lg_domain_size |-> 0, lg_blowup |-> 0, order |-> "-",
     direction |-> "-", type |-> "-", ext_pow |-> FALSE]

NoNTT ==
    [k |-> 0, at |-> 0, lg |-> 0, order |-> "-", direction |-> "-",
     type |-> "-", ext_pow |-> FALSE, steps |-> << >>]

Op(name, at, count) ==
    [op |-> name, ok |-> TRUE, stream |-> "gpu", at |-> at, count |-> count,
     order |-> "-", direction |-> "-", type |-> "-", lg_blowup |-> 0,
     perform_shift |-> FALSE, ext_pow |-> FALSE]

domain_size == 2 ^ call.lg_domain_size

ext_domain_size == domain_size * (2 ^ call.lg_blowup)

\* the size of the allocation
AllocSize(entry) ==
    CASE entry = "Base" -> domain_size
      [] entry = "LDE" -> ext_domain_size
      [] entry = "LDE_aux" -> ext_domain_size + domain_size

\* where the input is copied to: &d_inout[0], or aligned to the end of the
\* extended domain
DomainData(entry) ==
    IF entry = "Base" THEN 0 ELSE ext_domain_size - domain_size

\* the entry point's first statement inside try
FirstStatement(entry) ==
    IF entry = "LDE_aux" THEN "alloc" ELSE "select"

\* the arguments of the NTT_internal call an entry point makes after n
\* earlier ones (LDE, LDE_aux; Base passes its own arguments every time)
NTT_call(entry, n) ==
    CASE entry = "Base" ->
            [k |-> 1, at |-> 0, lg |-> call.lg_domain_size,
             order |-> call.order, direction |-> call.direction,
             type |-> call.type, ext_pow |-> call.ext_pow, steps |-> << >>]
      [] entry # "Base" /\ n = 0 ->
            [k |-> 1, at |-> DomainData(entry), lg |-> call.lg_domain_size,
             order |-> "NR", direction |-> "inverse", type |-> "standard",
             ext_pow |-> FALSE, steps |-> << >>]
      [] entry # "Base" /\ n > 0 ->
            [k |-> 1, at |-> 0, lg |-> call.lg_domain_size + call.lg_blowup,
             order |-> "RN", direction |-> "forward", type |-> "standard",
             ext_pow |-> FALSE, steps |-> << >>]

\* AfterNTT with LDE going from its first transform to its second
AfterNTT_NoLaunch(entry, n) ==
    CASE entry = "Base" -> "sync_iter"
      [] entry = "LDE" -> IF n = 0 THEN "ntt_call" ELSE "DtoH"
      [] entry = "LDE_aux" -> IF n = 0 THEN "aux_bit_rev" ELSE "DtoH"

\* the statement after NTT_internal call number n returns
AfterNTT(entry, n) ==
    CASE entry = "Base" -> "sync_iter"
      [] entry = "LDE" -> IF n = 0 THEN "launch" ELSE "DtoH"
      [] entry = "LDE_aux" -> IF n = 0 THEN "aux_bit_rev" ELSE "DtoH"

\* perform_shift and ext_pow as LDE_launch receives them
LaunchArgs(entry, ext_pow) ==
    IF entry = "LDE"
    THEN [perform_shift |-> ext_pow, ext_pow |-> FALSE]
    ELSE [perform_shift |-> TRUE, ext_pow |-> ext_pow]

\* the device step the statement at pc makes ("none": it makes none)
PendingOp ==
    CASE pc \in {"select", "alloc", "HtoD", "DtoH", "sync"} -> pc
      [] pc = "sync_iter" -> "sync"
      [] pc = "aux_bit_rev" -> "bit_rev"
      [] pc = "launch" -> "LDE_launch"
      [] pc = "ntt" -> NTT_step_op(ntt.k, ntt.order, ntt.direction, ntt.type)
      [] OTHER -> "none"

\* the assertion the statement at pc trips, if any
AssertFails ==
    \/ /\ PendingOp = "bit_rev"
       /\ call.lg_domain_size > MAX_LG_DOMAIN_SIZE
    \/ /\ pc = "launch"
       /\ call.lg_domain_size + call.lg_blowup > MAX_LG_DOMAIN_SIZE

Init ==
    /\ pc = "idle"
    /\ call = NoCall
    /\ host \in UNION { Inputs(lg) : lg \in 0 .. MaxLg }
    /\ input = host
    /\ dev = << >>
    /\ i = 0
    /\ ntt = NoNTT
    /\ err = "-"
    /\ status = "-"
    /\ ops = << >>
    /\ fwd = NoCall

\* CallBase without the early return
CallBase_NoEarlyReturn(order, direction, type, coset_ext_pow) ==
    /\ pc = "idle"
    /\ call' = [entry |-> "Base", lg_domain_size |-> lg2(Len(host)),
                lg_blowup |-> 0, order |-> order, direction |-> direction,
                type |-> type, ext_pow |-> coset_ext_pow]
    /\ pc' = FirstStatement("Base")
    /\ UNCHANGED << host, input, dev, i, ntt, err, status, ops, fwd >>

\* A caller calls Base: if (lg_domain_size == 0) return cudaSuccess.
CallBase(order, direction, type, coset_ext_pow) ==
    /\ pc = "idle"
    /\ call' = [entry |-> "Base", lg_domain_size |-> lg2(Len(host)),
                lg_blowup |-> 0, order |-> order, direction |-> direction,
                type |-> type, ext_pow |-> coset_ext_pow]
    /\ IF lg2(Len(host)) = 0
       THEN pc' = "done" /\ status' = "cudaSuccess"
       ELSE pc' = FirstStatement("Base") /\ status' = status
    /\ UNCHANGED << host, input, dev, i, ntt, err, ops, fwd >>

\* A caller calls LDE or LDE_aux.
CallLDE(entry, lg_blowup, ext_pow) ==
    /\ pc = "idle"
    /\ call' = [entry |-> entry, lg_domain_size |-> lg2(Len(host)),
                lg_blowup |-> lg_blowup, order |-> "-", direction |-> "-",
                type |-> "-", ext_pow |-> ext_pow]
    /\ pc' = FirstStatement(entry)
    /\ UNCHANGED << host, input, dev, i, ntt, err, status, ops, fwd >>

\* gpu.select()
Select ==
    /\ pc = "select"
    /\ ops' = Append(ops, Op("select", 0, 0))
    /\ pc' = "alloc"
    /\ UNCHANGED << call, host, input, dev, i, ntt, err, status, fwd >>

\* dev_ptr_t<fr_t> d{size, gpu}
Alloc ==
    /\ pc = "alloc"
    /\ dev' = Vec([p \in 1 .. AllocSize(call.entry) |-> Uninit])
    /\ ops' = Append(ops, Op("alloc", 0, AllocSize(call.entry)))
    /\ pc' = "HtoD"
    /\ UNCHANGED << call, host, input, i, ntt, err, status, fwd >>

\* gpu.HtoD(domain_data, inout, domain_size)
HtoD ==
    /\ pc = "HtoD"
    /\ dev' = WriteRegion(dev, DomainData(call.entry), SubSeq(host, 1, domain_size))
    /\ ops' = Append(ops, Op("HtoD", DomainData(call.entry), domain_size))
    /\ i' = 0
    /\ pc' = "ntt_call"
    /\ UNCHANGED << call, host, input, ntt, err, status, fwd >>

\* NTT_internal(...) is called
NTT_enter ==
    /\ pc = "ntt_call"
    /\ ntt' = NTT_call(call.entry, i)
    /\ ops' = Append(ops,
                [Op("NTT_internal", ntt'.at, 2 ^ ntt'.lg) EXCEPT
                    !.order = ntt'.order, !.direction = ntt'.direction,
                    !.type = ntt'.type, !.ext_pow = ntt'.ext_pow])
    /\ pc' = "ntt"
    /\ UNCHANGED << call, host, input, dev, i, err, status, fwd >>

\* statement ntt.k of NTT_internal; after the last one the call returns
NTT_statement ==
    /\ pc = "ntt"
    /\ IF AssertFails
       THEN /\ pc' = "aborted"
            /\ UNCHANGED << dev, ntt, ops, i >>
       ELSE /\ dev' = WriteRegion(dev, ntt.at,
                         NTT_step(ntt.k, Region(dev, ntt.at, 2 ^ ntt.lg), ntt.lg,
                                  ntt.order, ntt.direction, ntt.type, ntt.ext_pow))
            /\ LET op == PendingOp
               IN  /\ ops' = IF op = "none" THEN ops
                             ELSE Append(ops, Op(op, ntt.at, 2 ^ ntt.lg))
                   /\ ntt' = [ntt EXCEPT
                                !.k = ntt.k + 1,
                                !.steps = IF op = "none" THEN ntt.steps
                                          ELSE Append(ntt.steps, op)]
            /\ IF ntt.k = NTT_STEPS
               THEN /\ pc' = AfterNTT(call.entry, i)
                    /\ i' = IF call.entry = "Base" THEN i ELSE i + 1
               ELSE pc' = pc /\ i' = i
    /\ UNCHANGED << call, host, input, err, status, fwd >>

\* Base: gpu.sync() in the loop, then ++i and the loop test
SyncIter ==
    /\ pc = "sync_iter"
    /\ ops' = Append(ops, Op("sync", 0, 0))
    /\ i' = i + 1
    /\ pc' = IF i + 1 < iterations THEN "ntt_call" ELSE "DtoH"
    /\ UNCHANGED << call, host, input, dev, ntt, err, status, fwd >>

\* LDE_aux: bit_rev(aux_data, domain_data, lg_domain_size, gpu)
AuxBitRev ==
    /\ pc = "aux_bit_rev"
    /\ IF AssertFails
       THEN pc' = "aborted" /\ UNCHANGED << dev, ops >>
       ELSE /\ dev' = WriteRegion(dev, ext_domain_size,
                         bit_rev(Region(dev, ext_domain_size, domain_size),
                                 Region(dev, DomainData(call.entry), domain_size),
                                 FALSE, call.lg_domain_size))
            /\ ops' = Append(ops, Op("bit_rev", ext_domain_size, domain_size))
            /\ pc' = "launch"
    /\ UNCHANGED << call, host, input, i, ntt, err, status, fwd >>

\* LDE_launch(gpu, ext_domain_data, domain_data, gen_powers, ...)
Launch ==
    /\ pc = "launch"
    /\ LET a == LaunchArgs(call.entry, call.ext_pow)
       IN  IF AssertFails
           THEN pc' = "aborted" /\ UNCHANGED << dev, ops >>
           ELSE /\ dev' = LDE_launch(dev, 0, DomainData(call.entry),
                                     partial_group_gen_powers(FALSE),
                                     call.lg_domain_size, call.lg_blowup,
                                     a.perform_shift, a.ext_pow)
                /\ ops' = Append(ops,
                            [Op("LDE_launch", DomainData(call.entry), domain_size)
                                EXCEPT !.lg_blowup = call.lg_blowup,
                                       !.perform_shift = a.perform_shift,
                                       !.ext_pow = a.ext_pow])
                /\ pc' = "ntt_call"
    /\ UNCHANGED << call, host, input, i, ntt, err, status, fwd >>

\* gpu.DtoH(inout, ext_domain_data, size)
DtoH ==
    /\ pc = "DtoH"
    /\ LET size == IF call.entry = "Base" THEN domain_size ELSE ext_domain_size
       IN  /\ host' = Region(dev, 0, size)
           /\ ops' = Append(ops, Op("DtoH", 0, size))
    /\ pc' = "sync"
    /\ UNCHANGED << call, input, dev, i, ntt, err, status, fwd >>

\* gpu.sync(); the try block ends (the allocation is released);
\* return RustError{cudaSuccess}
SyncReturn ==
    /\ pc = "sync"
    /\ ops' = ops \o << Op("sync", 0, 0), Op("free", 0, Len(dev)) >>
    /\ dev' = << >>
    /\ status' = "cudaSuccess"
    /\ pc' = "done"
    /\ UNCHANGED << call, host, input, i, ntt, err, fwd >>

\* The device step of the statement at pc raises cuda_error e: the stack
\* unwinds (an allocation made is released) and the handler is entered.
Throw(e) ==
    /\ PendingOp # "none"
    /\ ~AssertFails
    /\ err' = e
    /\ ops' = ops \o << [Op(PendingOp, 0, 0) EXCEPT !.ok = FALSE] >>
                  \o (IF dev = << >> THEN << >> ELSE << Op("free", 0, Len(dev)) >>)
    /\ dev' = << >>
    /\ pc' = "catch"
    /\ UNCHANGED << call, host, input, i, ntt, status, fwd >>

\* Catch with the handler returning the code at once
Catch_NoSync ==
    /\ pc = "catch"
    /\ status' = err
    /\ pc' = "done"
    /\ UNCHANGED << call, host, input, dev, i, ntt, err, ops, fwd >>

\* catch (const cuda_error& e) { gpu.sync(); return RustError{e.code()}; }
Catch ==
    /\ pc = "catch"
    /\ ops' = Append(ops, Op("sync", 0, 0))
    /\ status' = err
    /\ pc' = "done"
    /\ UNCHANGED << call, host, input, dev, i, ntt, err, fwd >>

\* gpu.sync() in the handler raises cuda_error e itself: nothing catches it
CatchThrows(e) ==
    /\ pc = "catch"
    /\ ops' = Append(ops, [Op("sync", 0, 0) EXCEPT !.ok = FALSE])
    /\ err' = e
    /\ pc' = "escaped"
    /\ UNCHANGED << call, host, input, dev, i, ntt, status, fwd >>

Next ==
    \/ \E order \in InputOutputOrder, direction \in Direction, type \in Type,
          coset_ext_pow \in BOOLEAN :
          CallBase(order, direction, type, coset_ext_pow)
    \/ \E entry \in {"LDE", "LDE_aux"}, lg_blowup \in 0 .. MaxLgBlowup,
          ext_pow \in BOOLEAN :
          CallLDE(entry, lg_blowup, ext_pow)
    \/ Select
    \/ Alloc
    \/ HtoD
    \/ NTT_enter
    \/ NTT_statement
    \/ SyncIter
    \/ AuxBitRev
    \/ Launch
    \/ DtoH
    \/ SyncReturn
    \/ \E e \in Errors : Throw(e)
    \/ Catch
    \/ \E e \in Errors : CatchThrows(e)

Spec == Init /\ [][Next]_vars

\* Calls at and past the largest domain: one vector of 2^MAX_LG_DOMAIN_SIZE
\* elements and one of twice as many.
InitContract ==
    /\ pc = "idle"
    /\ call = NoCall
    /\ host \in { [j \in 1 .. 2 ^ lg |-> IF j = 2 THEN 1 ELSE 0] :
                     lg \in {MAX_LG_DOMAIN_SIZE, MAX_LG_DOMAIN_SIZE + 1} }
    /\ input = host
    /\ dev = << >>
    /\ i = 0
    /\ ntt = NoNTT
    /\ err = "-"
    /\ status = "-"
    /\ ops = << >>
    /\ fwd = NoCall

SpecContract == InitContract /\ [][Next]_vars

----------------------------------------------------------------------------
(* LDE and LDE_aux as functions: what a call that raises nothing leaves in *)
(* the caller's buffer.                                                     *)

\* LDE and LDE_aux past the allocation: copy in at the end of the extended
\* domain, inverse NR, spread, forward RN, copy the extended domain out.
\* Defined for lg_domain_size + lg_blowup <= MAX_LG_DOMAIN_SIZE.
LDE_pipeline(inout, lg_domain_size, lg_blowup, perform_shift, ext_pow) ==
    LET n == 2 ^ lg_domain_size
        ext == n * (2 ^ lg_blowup)
        d0 == WriteRegion(Vec([p \in 1 .. ext |-> Uninit]), ext - n, SubSeq(inout, 1, n))
        d1 == WriteRegion(d0, ext - n,
                  NTT_internal(Region(d0, ext - n, n), lg_domain_size,
                               "NR", "inverse", "standard", FALSE))
        d2 == LDE_launch(d1, 0, ext - n, partial_group_gen_powers(FALSE),
                         lg_domain_size, lg_blowup, perform_shift, ext_pow)
    IN  NTT_internal(d2, lg_domain_size + lg_blowup, "RN", "forward",
                     "standard", FALSE)

LDE(inout, lg_domain_size, lg_blowup, ext_pow) ==
    LDE_pipeline(inout, lg_domain_size, lg_blowup,
                 LaunchArgs("LDE", ext_pow).perform_shift,
                 LaunchArgs("LDE", ext_pow).ext_pow)

LDE_aux(inout, lg_domain_size, lg_blowup, ext_pow) ==
    LDE_pipeline(inout, lg_domain_size, lg_blowup,
                 LaunchArgs("LDE_aux", ext_pow).perform_shift,
                 LaunchArgs("LDE_aux", ext_pow).ext_pow)

\* The statement-by-statement entry points leave what the functions say.
StepsAgreeWithFunctions ==
    (pc = "done" /\ status = "cudaSuccess" /\ call.entry # "Base") =>
        host = IF call.entry = "LDE"
               THEN LDE(input, call.lg_domain_size, call.lg_blowup, call.ext_pow)
               ELSE LDE_aux(input, call.lg_domain_size, call.lg_blowup,
                            call.ext_pow)

----------------------------------------------------------------------------
(* Round trips: a forward Base call, then an inverse Base call on its     *)
(* output, neither raising.  A call is taken in steps of one loop          *)
(* iteration: copy in, iterations times NTT_internal, copy out.            *)

InitRT ==
    /\ pc = "rt_start"
    /\ call = NoCall
    /\ host \in UNION { Inputs(lg) : lg \in 0 .. MaxLg }
    /\ input = host
    /\ dev = << >>
    /\ i = 0
    /\ ntt = NoNTT
    /\ err = "-"
    /\ status = "-"
    /\ ops = << >>
    /\ fwd = NoCall

\* Base(gpu, inout, lg_domain_size, order, direction, type, coset_ext_pow)
\* is called: the early return, or the copy to the device
BaseCalled(at, direction, order, type, coset_ext_pow) ==
    /\ pc = at
    /\ call' = [entry |-> "Base", lg_domain_size |-> lg2(Len(host)),
                lg_blowup |-> 0, order |-> order, direction |-> direction,
                type |-> type, ext_pow |-> coset_ext_pow]
    /\ fwd' = IF direction = "forward" THEN call' ELSE fwd
    /\ i' = 0
    /\ IF lg2(Len(host)) = 0
       THEN /\ dev' = dev
            /\ status' = "cudaSuccess"
            /\ pc' = IF direction = "forward" THEN "rt_forward" ELSE "rt_inverse"
       ELSE /\ dev' = host
            /\ status' = "-"
            /\ pc' = "rt_loop"
    /\ UNCHANGED << host, input, ntt, err, ops >>

BaseForward(order, type, coset_ext_pow) ==
    BaseCalled("rt_start", "forward", order, type, coset_ext_pow)

BaseInverse(order, type, coset_ext_pow) ==
    BaseCalled("rt_forward", "inverse", order, type, coset_ext_pow)

\* one iteration of the loop of Base; after the last one the copy out and
\* the return
BaseIteration ==
    /\ pc = "rt_loop"
    /\ LET d == NTT_internal(dev, call.lg_domain_size, call.order,
                             call.direction, call.type, call.ext_pow)
       IN  IF i + 1 < iterations
           THEN /\ dev' = d
                /\ UNCHANGED << host, status, pc >>
           ELSE /\ dev' = << >>
                /\ host' = d
                /\ status' = "cudaSuccess"
                /\ pc' = IF call.direction = "forward" THEN "rt_forward"
                         ELSE "rt_inverse"
    /\ i' = i + 1
    /\ UNCHANGED << call, input, ntt, err, ops, fwd >>

NextRT ==
    \/ \E order \in InputOutputOrder, type \in Type, coset_ext_pow \in BOOLEAN :
          BaseForward(order, type, coset_ext_pow)
    \/ \E order \in InputOutputOrder, type \in Type, coset_ext_pow \in BOOLEAN :
          BaseInverse(order, type, coset_ext_pow)
    \/ BaseIteration

SpecRT == InitRT /\ [][NextRT]_vars

----------------------------------------------------------------------------
(* The bit reversal kernels, thread by thread.  One launch of NTT::bit_rev *)
(* followed by a second one on its output.  Here call is the launch, dev   *)
(* the device memory, input the memory at the first launch, pc the         *)
(* position of every thread, i the running tid of every thread (the loop   *)
(* of bit_rev_permutation_z) and ntt the on-chip state: the registers of   *)
(* every thread and the shared memory of every block.  A step of a thread  *)
(* is its run between two points where it waits or between its loads from *)
(* and its stores to device memory.                                        *)

\* NTT::bit_rev: the kernel and the launch shape, for a field element of
\* 256 / Z_COUNT bytes, warps of warp_sz threads and blocks of at most
\* max_block threads (1024).  The last branch of the source needs
\* lg_domain_size > 32 and is left out.
bit_rev_launch(lg_domain_size, Z_COUNT, warp_sz, max_block) ==
    LET size == 2 ^ lg_domain_size
        bsize == IF Z_COUNT > warp_sz THEN Z_COUNT ELSE warp_sz
    IN  IF size <= max_block
        THEN [kernel |-> "bit_rev_permutation", gridDim |-> 1, blockDim |-> size]
        ELSE IF size < bsize * Z_COUNT
        THEN [kernel |-> "bit_rev_permutation", gridDim |-> size \div warp_sz,
              blockDim |-> warp_sz]
        ELSE [kernel |-> "bit_rev_permutation_z",
              gridDim |-> (size \div Z_COUNT) \div bsize, blockDim |-> bsize]

\* The devices the launches are explored on: Z_COUNT, WARP_SZ and the
\* largest block, scaled down so that every kernel is reached on a domain
\* of a few elements.
Devices ==
    { [Z_COUNT |-> 2, WARP_SZ |-> 1, max_block |-> 2],
      [Z_COUNT |-> 2, WARP_SZ |-> 4, max_block |-> 4],
      [Z_COUNT |-> 4, WARP_SZ |-> 2, max_block |-> 2] }

\* the values of lg_domain_size of the launches
BitRevLgs == 1 .. 4

Threads == 0 .. (call.gridDim * call.blockDim - 1)

blockIdx(t) == t \div call.blockDim

threadIdx(t) == t % call.blockDim

\* the threads that have not returned, of a block and of a warp of it
Running(block) == { t \in Threads : blockIdx(t) = block /\ pc[t] # "exit" }

RunningWarp(block, warp) ==
    { t \in Running(block) : threadIdx(t) \div call.WARP_SZ = warp }

Waiting == {"syncthreads", "sync1", "sync2", "sync3"}

\* the statement after the barrier a thread waits at
AfterBarrier(at) ==
    CASE at = "syncthreads" -> "store"
      [] at = "sync1" -> "store1"
      [] at = "sync2" -> "xchg2"
      [] at = "sync3" -> "store2"

\* device memory with the cells in DOMAIN cells (addresses from 0) written
WriteCells(mem, cells) ==
    Vec([p \in 1 .. Len(mem) |->
            IF (p - 1) \in DOMAIN cells THEN cells[p - 1] ELSE mem[p]])

NoOnChip(launch) ==
    [regs |-> [t \in 0 .. (launch.gridDim * launch.blockDim - 1) |-> << >>],
     xchg |-> [c \in (0 .. launch.gridDim - 1) \X (0 .. launch.blockDim - 1)
                     \X (0 .. launch.Z_COUNT - 1) \X (0 .. launch.Z_COUNT - 1)
               |-> Uninit]]

\* bit_rev(d_out, d_inp, lg_domain_size, stream) on a device
BitRevCall(lg, device, inplace) ==
    bit_rev_launch(lg, device.Z_COUNT, device.WARP_SZ, device.max_block) @@
    [lg_domain_size |-> lg, Z_COUNT |-> device.Z_COUNT,
     WARP_SZ |-> device.WARP_SZ, inplace |-> inplace, d_in |-> 0,
     d_out |-> IF inplace THEN 0 ELSE 2 ^ lg, round |-> 1]

InitBitRev ==
    /\ \E lg \in BitRevLgs, device \in Devices, inplace \in BOOLEAN :
          /\ call = BitRevCall(lg, device, inplace)
          /\ dev = Vec([p \in 1 .. (IF inplace THEN 2 ^ lg ELSE 2 * (2 ^ lg)) |->
                           IF p <= 2 ^ lg THEN p ELSE Uninit])
    /\ input = dev
    /\ pc = [t \in Threads |-> "start"]
    /\ i = [t \in Threads |-> t]
    /\ ntt = NoOnChip(call)
    /\ host = << >>
    /\ err = "-"
    /\ status = "-"
    /\ ops = << >>
    /\ fwd = NoCall

\* PermutationLoad with the single block going from its load to its store
\* without __syncthreads()
PermutationLoad_NoSync(t) ==
    /\ call.kernel = "bit_rev_permutation"
    /\ pc[t] = "start"
    /\ LET rev == bit_rev_index(t, call.lg_domain_size)
           copy == ~call.inplace /\ t = rev
       IN  IF call.gridDim = 1 /\ call.blockDim = 2 ^ call.lg_domain_size
           THEN /\ ntt' = [ntt EXCEPT !.regs[t] = << dev[call.d_in + t + 1] >>]
                /\ pc' = [pc EXCEPT ![t] = "store"]
           ELSE IF t < rev \/ copy
           THEN /\ ntt' = [ntt EXCEPT !.regs[t] =
                              << dev[call.d_in + t + 1], dev[call.d_in + rev + 1] >>]
                /\ pc' = [pc EXCEPT ![t] = "store"]
           ELSE /\ ntt' = ntt
                /\ pc' = [pc EXCEPT ![t] = "exit"]
    /\ UNCHANGED << call, host, input, dev, i, err, status, ops, fwd >>

\* bit_rev_permutation: the loads of thread t
\*   single block: t = d_in[idx];  otherwise: t0 = d_in[idx], t1 = d_in[rev]
PermutationLoad(t) ==
    /\ call.kernel = "bit_rev_permutation"
    /\ pc[t] = "start"
    /\ LET rev == bit_rev_index(t, call.lg_domain_size)
           copy == ~call.inplace /\ t = rev
       IN  IF call.gridDim = 1 /\ call.blockDim = 2 ^ call.lg_domain_size
           THEN /\ ntt' = [ntt EXCEPT !.regs[t] = << dev[call.d_in + t + 1] >>]
                /\ pc' = [pc EXCEPT ![t] = IF call.d_out = call.d_in
                                           THEN "syncthreads" ELSE "store"]
           ELSE IF t < rev \/ copy
           THEN /\ ntt' = [ntt EXCEPT !.regs[t] =
                              << dev[call.d_in + t + 1], dev[call.d_in + rev + 1] >>]
                /\ pc' = [pc EXCEPT ![t] = "store"]
           ELSE /\ ntt' = ntt
                /\ pc' = [pc EXCEPT ![t] = "exit"]
    /\ UNCHANGED << call, host, input, dev, i, err, status, ops, fwd >>

\* bit_rev_permutation: the stores of thread t
\*   single block: d_out[rev] = t;  otherwise: d_out[idx] = t1 unless copy,
\*   d_out[rev] = t0
PermutationStore(t) ==
    /\ call.kernel = "bit_rev_permutation"
    /\ pc[t] = "store"
    /\ LET rev == bit_rev_index(t, call.lg_domain_size)
           copy == ~call.inplace /\ t = rev
           regs == ntt.regs[t]
       IN  dev' = IF call.gridDim = 1 /\ call.blockDim = 2 ^ call.lg_domain_size
                  THEN WriteCells(dev, [a \in {call.d_out + rev} |-> regs[1]])
                  ELSE IF copy
                  THEN WriteCells(dev, [a \in {call.d_out + rev} |-> regs[1]])
                  ELSE WriteCells(dev, [a \in {call.d_out + t, call.d_out + rev} |->
                                           IF a = call.d_out + rev THEN regs[1]
                                           ELSE regs[2]])
    /\ pc' = [pc EXCEPT ![t] = "exit"]
    /\ UNCHANGED << call, host, input, i, ntt, err, status, ops, fwd >>

\* __syncthreads(): the threads of a block that have not returned are all
\* waiting and go on together
SyncThreads(block) ==
    /\ call.kernel = "bit_rev_permutation" \/ call.Z_COUNT > call.WARP_SZ
    /\ Running(block) # {}
    /\ \A t \in Running(block) : pc[t] \in Waiting
    /\ pc' = [t \in Threads |-> IF t \in Running(block) THEN AfterBarrier(pc[t])
                                ELSE pc[t]]
    /\ UNCHANGED << call, host, input, dev, i, ntt, err, status, ops, fwd >>

\* __syncwarp(): the same for the threads of a warp
SyncWarp(block, warp) ==
    /\ call.kernel = "bit_rev_permutation_z"
    /\ call.Z_COUNT <= call.WARP_SZ
    /\ RunningWarp(block, warp) # {}
    /\ \A t \in RunningWarp(block, warp) : pc[t] \in Waiting
    /\ pc' = [t \in Threads |-> IF t \in RunningWarp(block, warp)
                                THEN AfterBarrier(pc[t]) ELSE pc[t]]
    /\ UNCHANGED << call, host, input, dev, i, ntt, err, status, ops, fwd >>

\* bit_rev_permutation_z: what thread t works on in the current pass of
\* its loop
GroupOf(t) ==
    LET Z == call.Z_COUNT
        LG_Z == lg2(Z)
        group_idx == i[t] \div Z
        group_rev == bit_rev_index(group_idx, call.lg_domain_size - 2 * LG_Z)
        idx == threadIdx(t) % Z
    IN  [gid |-> threadIdx(t) \div Z,
         idx |-> idx,
         rev |-> bit_rev_index(idx, LG_Z),
         step |-> 2 ^ (call.lg_domain_size - LG_Z),
         group_idx |-> group_idx,
         group_rev |-> group_rev,
         base_idx |-> group_idx * Z + idx,
         base_rev |-> group_rev * Z + idx]

\* continue, or the end of the loop body: while (Z_COUNT <= WARP_SZ &&
\* (tid += blockDim.x*gridDim.x) < step)
LoopTest(t) ==
    IF /\ call.Z_COUNT <= call.WARP_SZ
       /\ i[t] + call.blockDim * call.gridDim < GroupOf(t).step
    THEN /\ i' = [i EXCEPT ![t] = i[t] + call.blockDim * call.gridDim]
         /\ pc' = [pc EXCEPT ![t] = "start"]
    ELSE /\ i' = i
         /\ pc' = [pc EXCEPT ![t] = "exit"]

\* bit_rev_permutation_z, first loop: xchg[gid][i][rev] = (regs[i] =
\* in[i * step + base_idx]); regs[i] = in[i * step + base_rev] when the
\* group is not its own reverse
GroupLoad(t) ==
    /\ call.kernel = "bit_rev_permutation_z"
    /\ pc[t] = "start"
    /\ LET g == GroupOf(t)
           Z == call.Z_COUNT
       IN  IF g.group_idx > g.group_rev
           THEN /\ LoopTest(t)
                /\ ntt' = ntt
           ELSE /\ ntt' = [regs |-> [ntt.regs EXCEPT ![t] =
                              [k \in 0 .. Z - 1 |->
                                  IF g.group_idx # g.group_rev
                                  THEN dev[call.d_in + k * g.step + g.base_rev + 1]
                                  ELSE dev[call.d_in + k * g.step + g.base_idx + 1]]],
                           xchg |-> [c \in DOMAIN ntt.xchg |->
                              IF c[1] = blockIdx(t) /\ c[2] = g.gid /\ c[4] = g.rev
                              THEN dev[call.d_in + c[3] * g.step + g.base_idx + 1]
                              ELSE ntt.xchg[c]]]
                /\ pc' = [pc EXCEPT ![t] = "sync1"]
                /\ i' = i
    /\ UNCHANGED << call, host, input, dev, err, status, ops, fwd >>

\* out[i * step + base_rev] = xchg[gid][rev][i]; continue when the group is
\* its own reverse
GroupStore1(t) ==
    /\ call.kernel = "bit_rev_permutation_z"
    /\ pc[t] = "store1"
    /\ LET g == GroupOf(t)
           Z == call.Z_COUNT
       IN  /\ dev' = WriteCells(dev,
                        [a \in { call.d_out + k * g.step + g.base_rev : k \in 0 .. Z - 1 } |->
                            ntt.xchg[<< blockIdx(t), g.gid, g.rev,
                                        (a - call.d_out - g.base_rev) \div g.step >>]])
           /\ IF g.group_idx = g.group_rev
              THEN LoopTest(t)
              ELSE pc' = [pc EXCEPT ![t] = "sync2"] /\ i' = i
    /\ UNCHANGED << call, host, input, ntt, err, status, ops, fwd >>

\* xchg[gid][i][rev] = regs[i]
GroupExchange(t) ==
    /\ call.kernel = "bit_rev_permutation_z"
    /\ pc[t] = "xchg2"
    /\ LET g == GroupOf(t)
       IN  ntt' = [ntt EXCEPT !.xchg =
                      [c \in DOMAIN ntt.xchg |->
                          IF c[1] = blockIdx(t) /\ c[2] = g.gid /\ c[4] = g.rev
                          THEN ntt.regs[t][c[3]]
                          ELSE ntt.xchg[c]]]
    /\ pc' = [pc EXCEPT ![t] = "sync3"]
    /\ UNCHANGED << call, host, input, dev, i, err, status, ops, fwd >>

\* out[i * step + base_idx] = xchg[gid][rev][i]
GroupStore2(t) ==
    /\ call.kernel = "bit_rev_permutation_z"
    /\ pc[t] = "store2"
    /\ LET g == GroupOf(t)
           Z == call.Z_COUNT
       IN  dev' = WriteCells(dev,
                     [a \in { call.d_out + k * g.step + g.base_idx : k \in 0 .. Z - 1 } |->
                         ntt.xchg[<< blockIdx(t), g.gid, g.rev,
                                     (a - call.d_out - g.base_idx) \div g.step >>]])
    /\ LoopTest(t)
    /\ UNCHANGED << call, host, input, ntt, err, status, ops, fwd >>

\* the kernel has completed
Completed == \A t \in Threads : pc[t] = "exit"

\* bit_rev once more, on what the first launch left: in place again, or
\* from the destination back into the source buffer
SecondBitRev ==
    /\ Completed
    /\ call.round = 1
    /\ call' = [call EXCEPT !.round = 2, !.d_in = call.d_out, !.d_out = call.d_in]
    /\ pc' = [t \in Threads |-> "start"]
    /\ i' = [t \in Threads |-> t]
    /\ ntt' = NoOnChip(call)
    /\ UNCHANGED << host, input, dev, err, status, ops, fwd >>

NextBitRev ==
    \/ \E t \in Threads : PermutationLoad(t)
    \/ \E t \in Threads : PermutationStore(t)
    \/ \E block \in 0 .. call.gridDim - 1 : SyncThreads(block)
    \/ \E block \in 0 .. call.gridDim - 1, warp \in 0 .. call.blockDim - 1 :
          SyncWarp(block, warp)
    \/ \E t \in Threads : GroupLoad(t)
    \/ \E t \in Threads : GroupStore1(t)
    \/ \E t \in Threads : GroupExchange(t)
    \/ \E t \in Threads : GroupStore2(t)
    \/ SecondBitRev

SpecBitRev == InitBitRev /\ [][NextBitRev]_vars

----------------------------------------------------------------------------
(* LDE_spread_distribute_powers, thread by thread.  call holds the launch  *)
(* and the kernel's arguments, dev the device memory, input the memory at  *)
(* launch, pc[t] the statement thread t is at and i[t] its iter, ntt the   *)
(* registers r and the blocks' exchange buffers; ops collects the source   *)
(* cells that have been loaded, status the cells that have been stored     *)
(* to, fwd the barrier each iteration took.                                *)

\* the launches: a domain and a blowup within the bound, a power-of-two
\* grid that divides the domain, the source behind the destination or at
\* its end, the shift arguments LDE and LDE_aux pass
SpreadLaunches ==
    { [lg_domain_size |-> lg, lg_blowup |-> b, gridDim |-> g, blockDim |-> d,
       out |-> 0,
       in |-> IF disjoint THEN 2 ^ (lg + b) ELSE (2 ^ lg) * (2 ^ b - 1),
       perform_shift |-> shift[1], ext_pow |-> shift[2]] :
          lg \in 0 .. MAX_LG_DOMAIN_SIZE - 1, b \in 0 .. MAX_LG_DOMAIN_SIZE,
          g \in {1, 2, 4}, d \in {1, 2, 4}, disjoint \in BOOLEAN,
          shift \in { << FALSE, FALSE >>, << TRUE, FALSE >>, << TRUE, TRUE >> } }

SpreadCalls ==
    { c \in SpreadLaunches :
          /\ c.lg_domain_size + c.lg_blowup <= MAX_LG_DOMAIN_SIZE
          /\ c.gridDim * c.blockDim <= 2 ^ c.lg_domain_size }

\* uint32_t stride = gridDim.x * blockDim.x
stride == call.gridDim * call.blockDim

blowup == 2 ^ call.lg_blowup

\* the test of the two pointers
overlapping_data ==
    LET n == 2 ^ call.lg_domain_size
    IN  \/ call.in < call.out /\ call.in + n > call.out
        \/ call.in >= call.out /\ call.out + n * blowup > call.in

\* index_t iters = domain_size >> (31 - __clz(stride))
iters == (2 ^ call.lg_domain_size) \div (2 ^ lg2(stride))

\* iter >= (blowup - 1) * (iters >> lg_blowup)
GridSyncFrom == (blowup - 1) * (iters \div blowup)

\* idx0 of thread t in its current iteration
idx0(t) == call.blockDim * blockIdx(t) + i[t] * stride

InitSpread ==
    /\ call \in SpreadCalls
    /\ dev = Vec([p \in 1 .. (2 ^ (call.lg_domain_size + call.lg_blowup)
                              + (IF call.in = 2 ^ (call.lg_domain_size + call.lg_blowup)
                                 THEN 2 ^ call.lg_domain_size ELSE 0)) |->
                    IF p - 1 >= call.in THEN p - call.in ELSE Uninit])
    /\ input = dev
    /\ pc = [t \in Threads |-> "load"]
    /\ i = [t \in Threads |-> 0]
    /\ ntt = [regs |-> [t \in Threads |-> Uninit],
              xchg |-> [c \in (0 .. call.gridDim - 1) \X (0 .. call.blockDim - 1)
                        |-> Uninit]]
    /\ ops = {}
    /\ status = {}
    /\ fwd = {}
    /\ host = << >>
    /\ err = "-"

\* fr_t r = in[idx]; if (perform_shift) r = r * get_intermediate_root(pow)
SpreadLoad(t) ==
    /\ pc[t] = "load"
    /\ LET idx == idx0(t) + threadIdx(t)
           r == dev[call.in + idx + 1]
           pow == bit_rev_index(idx, call.lg_domain_size +
                                     (IF call.ext_pow THEN call.lg_blowup ELSE 0))
       IN  /\ ntt' = [ntt EXCEPT !.regs[t] =
                         IF call.perform_shift /\ r # Uninit
                         THEN FMul(r, get_intermediate_root(pow,
                                          partial_group_gen_powers(FALSE)))
                         ELSE r]
           /\ ops' = ops \cup {call.in + idx}
    /\ pc' = [pc EXCEPT ![t] = "sync1"]
    /\ UNCHANGED << call, host, input, dev, i, err, status, fwd >>

\* SpreadExchange with the block's barrier in every iteration
SpreadExchange_BlockBarrier(t) ==
    /\ pc[t] = "xchg"
    /\ ntt' = [ntt EXCEPT !.xchg[<< blockIdx(t), threadIdx(t) >>] = ntt.regs[t]]
    /\ pc' = [pc EXCEPT ![t] = "sync2"]
    /\ fwd' = fwd \cup { << i[t], "sync2" >> }
    /\ UNCHANGED << call, host, input, dev, i, err, status, ops >>

\* SpreadExchange with the grid-wide barrier taken by block 0 only
SpreadExchange_FirstBlock(t) ==
    /\ pc[t] = "xchg"
    /\ ntt' = [ntt EXCEPT !.xchg[<< blockIdx(t), threadIdx(t) >>] = ntt.regs[t]]
    /\ LET barrier == IF overlapping_data /\ i[t] >= GridSyncFrom
                         /\ blockIdx(t) = 0
                      THEN "grid_sync" ELSE "sync2"
       IN  /\ pc' = [pc EXCEPT ![t] = barrier]
           /\ fwd' = fwd \cup { << i[t], barrier >> }
    /\ UNCHANGED << call, host, input, dev, i, err, status, ops >>

\* exchange[threadIdx.x] = r; then the barrier this iteration takes
SpreadExchange(t) ==
    /\ pc[t] = "xchg"
    /\ ntt' = [ntt EXCEPT !.xchg[<< blockIdx(t), threadIdx(t) >>] = ntt.regs[t]]
    /\ LET barrier == IF overlapping_data /\ i[t] >= GridSyncFrom
                      THEN "grid_sync" ELSE "sync2"
       IN  /\ pc' = [pc EXCEPT ![t] = barrier]
           /\ fwd' = fwd \cup { << i[t], barrier >> }
    /\ UNCHANGED << call, host, input, dev, i, err, status, ops >>

\* __syncthreads(), before and after the store to exchange
SpreadSyncThreads(block) ==
    /\ Running(block) # {}
    /\ \A t \in Running(block) : pc[t] \in {"sync1", "sync2"}
    /\ pc' = [t \in Threads |->
                 IF t \in Running(block)
                 THEN (IF pc[t] = "sync1" THEN "xchg" ELSE "store")
                 ELSE pc[t]]
    /\ UNCHANGED << call, host, input, dev, i, ntt, err, status, ops, fwd >>

\* cooperative_groups::this_grid().sync()
GridSync ==
    /\ \A t \in Threads : pc[t] = "grid_sync"
    /\ pc' = [t \in Threads |-> "store"]
    /\ UNCHANGED << call, host, input, dev, i, ntt, err, status, ops, fwd >>

\* r.zero(); the loop of blowup stores; idx0 += stride and the loop test
SpreadStore(t) ==
    /\ pc[t] = "store"
    /\ LET thread_pos == threadIdx(t) % blowup
           offset(k) == k * call.blockDim + threadIdx(t)
           cell(k) == call.out + idx0(t) * blowup + offset(k)
           cells == [a \in { cell(k) : k \in 0 .. blowup - 1 } |->
                        IF thread_pos = 0
                        THEN LET k == CHOOSE k \in 0 .. blowup - 1 : cell(k) = a
                             IN  ntt.xchg[<< blockIdx(t), offset(k) \div blowup >>]
                        ELSE 0]
       IN  /\ dev' = WriteCells(dev, cells)
           /\ status' = status \cup DOMAIN cells
    /\ i' = [i EXCEPT ![t] = i[t] + 1]
    /\ pc' = [pc EXCEPT ![t] = IF i[t] + 1 < iters THEN "load" ELSE "exit"]
    /\ UNCHANGED << call, host, input, ntt, err, ops, fwd >>

NextSpread ==
    \/ \E t \in Threads : SpreadLoad(t)
    \/ \E t \in Threads : SpreadExchange(t)
    \/ \E block \in 0 .. call.gridDim - 1 : SpreadSyncThreads(block)
    \/ GridSync
    \/ \E t \in Threads : SpreadStore(t)

SpecSpread == InitSpread /\ [][NextSpread]_vars

\* The launch is cooperative: all blocks of the grid are resident, so a
\* thread that can take a step, or a barrier that can release, is not
\* held back forever.
SpecSpreadFair == SpecSpread /\ WF_vars(NextSpread)

----------------------------------------------------------------------------
(* The root-power lookups on their own: a kernel asks for the powers of    *)
(* two exponents below 2^MAX_LG_DOMAIN_SIZE.  call holds the exponents and *)
(* the direction of the table, ntt what the lookups return and the rows    *)
(* the single-index lookup read.                                           *)

InitOracle ==
    /\ pc = "idle"
    /\ call = NoCall
    /\ host = << >>
    /\ input = << >>
    /\ dev = << >>
    /\ i = 0
    /\ ntt = NoNTT
    /\ err = "-"
    /\ status = "-"
    /\ ops = << >>
    /\ fwd = NoCall

Lookup(pow0, pow1, intt) ==
    /\ call' = [idx0 |-> pow0, idx1 |-> pow1, intt |-> intt]
    /\ LET roots == partial_group_gen_powers(intt)
       IN  ntt' = [root |-> << get_intermediate_root(pow0, roots),
                               get_intermediate_root(pow1, roots) >>,
                   roots |-> get_intermediate_roots(pow0, pow1, roots),
                   rows |-> get_intermediate_root_rows(pow0, 0)
                               \cup get_intermediate_root_rows(pow1, 0)]
    /\ pc' = "looked_up"
    /\ UNCHANGED << host, input, dev, i, err, status, ops, fwd >>

NextOracle ==
    \E pow0 \in 0 .. 2 ^ MAX_LG_DOMAIN_SIZE - 1,
       pow1 \in 0 .. 2 ^ MAX_LG_DOMAIN_SIZE - 1, intt \in BOOLEAN :
          Lookup(pow0, pow1, intt)

SpecOracle == InitOracle /\ [][NextOracle]_vars

----------------------------------------------------------------------------
(* LDE_powers and LDE_distribute_powers, thread by thread.  call holds the *)
(* arguments and the launch, dev the device memory with one cell behind    *)
(* the vector, input the memory at launch, pc[t] the statement thread t is *)
(* at, ntt the registers r; ops counts the stores to each cell and status  *)
(* collects the cells loaded from or stored to.                            *)

\* LDE_powers with the third branch launching warp-sized blocks
LDE_powers_launch_SmallBlocks(lg_domain_size, warp_sz, block_sz) ==
    LET size == 2 ^ lg_domain_size
    IN  IF size < warp_sz
        THEN [gridDim |-> 1, blockDim |-> size]
        ELSE IF size < block_sz
        THEN [gridDim |-> size \div warp_sz, blockDim |-> warp_sz]
        ELSE [gridDim |-> size \div block_sz, blockDim |-> warp_sz]

\* the launch shape LDE_powers picks, WARP_SZ and 512 as parameters
LDE_powers_launch(lg_domain_size, warp_sz, block_sz) ==
    LET size == 2 ^ lg_domain_size
    IN  IF size < warp_sz
        THEN [gridDim |-> 1, blockDim |-> size]
        ELSE IF size < block_sz
        THEN [gridDim |-> size \div warp_sz, blockDim |-> warp_sz]
        ELSE [gridDim |-> size \div block_sz, blockDim |-> block_sz]

\* WARP_SZ and the block size 512 of the device, and two devices on which
\* the domains of the model reach the second and the third launch shape
PowersDevices ==
    { [WARP_SZ |-> WARP_SZ, block_sz |-> 512],
      [WARP_SZ |-> 2, block_sz |-> 4],
      [WARP_SZ |-> 2, block_sz |-> 8] }

\* LDE_powers(inout, innt, bitrev, lg_domain_size, lg_blowup, stream,
\* ext_pow) as NTT_internal and the public LDE_powers call it: lg_blowup 0
PowersCall(lg, device, innt, bitrev, ext_pow) ==
    LDE_powers_launch(lg, device.WARP_SZ, device.block_sz) @@
    [lg_domain_size |-> lg, lg_blowup |-> 0, innt |-> innt, bitrev |-> bitrev,
     ext_pow |-> ext_pow, WARP_SZ |-> device.WARP_SZ,
     block_sz |-> device.block_sz]

InitPowers ==
    /\ call \in { PowersCall(lg, device, innt, bitrev, ext_pow) :
                     lg \in 0 .. MAX_LG_DOMAIN_SIZE, device \in PowersDevices,
                     innt \in BOOLEAN, bitrev \in BOOLEAN, ext_pow \in BOOLEAN }
    /\ dev = Vec([p \in 1 .. 2 ^ call.lg_domain_size + 1 |-> p])
    /\ input = dev
    /\ pc = [t \in Threads |-> "load"]
    /\ i = [t \in Threads |-> t]
    /\ ntt = [regs |-> [t \in Threads |-> Uninit]]
    /\ ops = [c \in 0 .. 2 ^ call.lg_domain_size |-> 0]
    /\ status = {}
    /\ host = << >>
    /\ err = "-"
    /\ fwd = NoCall

\* index_t idx = threadIdx.x + blockDim.x * blockIdx.x
PowersIdx(t) == threadIdx(t) + call.blockDim * blockIdx(t)

\* pow: idx, bit-reversed in the width the launch shape gives when bitrev,
\* shifted left by lg_blowup when ext_pow
PowersPow(t) ==
    LET idx == PowersIdx(t)
        pow == IF call.bitrev
               THEN bit_rev_index(idx, lg2(call.gridDim * call.blockDim))
               ELSE idx
    IN  IF call.ext_pow THEN pow * (2 ^ call.lg_blowup) ELSE pow

\* fr_t r = d_inout[idx]
PowersLoad(t) ==
    /\ pc[t] = "load"
    /\ ntt' = [ntt EXCEPT !.regs[t] = dev[PowersIdx(t) + 1]]
    /\ status' = status \cup {PowersIdx(t)}
    /\ pc' = [pc EXCEPT ![t] = "store"]
    /\ UNCHANGED << call, host, input, dev, i, err, ops, fwd >>

\* r = r * get_intermediate_root(pow, gen_powers); d_inout[idx] = r
PowersStore(t) ==
    /\ pc[t] = "store"
    /\ LET idx == PowersIdx(t)
           r == FMul(ntt.regs[t],
                     get_intermediate_root(PowersPow(t),
                                           partial_group_gen_powers(call.innt)))
       IN  /\ dev' = WriteCells(dev, [a \in {idx} |-> r])
           /\ ops' = [ops EXCEPT ![idx] = ops[idx] + 1]
           /\ status' = status \cup {idx}
    /\ pc' = [pc EXCEPT ![t] = "exit"]
    /\ UNCHANGED << call, host, input, i, ntt, err, fwd >>

NextPowers ==
    \/ \E t \in Threads : PowersLoad(t)
    \/ \E t \in Threads : PowersStore(t)

SpecPowers == InitPowers /\ [][NextPowers]_vars

----------------------------------------------------------------------------
(* The pointers LDE_spread_distribute_powers is launched with: by LDE and  *)
(* LDE_aux on their own allocation, by LDE_expand on the caller's.  call   *)
(* holds the caller and the kernel's arguments, dev the device memory,     *)
(* ops the pointers the kernel has read tables through.                    *)

\* cells of the device memory LDE_expand's callers point into
MemCells == 6

InitOverlap ==
    /\ pc = "idle"
    /\ call = NoCall
    /\ host = << >>
    /\ input = << >>
    /\ dev = << >>
    /\ i = 0
    /\ ntt = NoNTT
    /\ err = "-"
    /\ status = "-"
    /\ ops = {}
    /\ fwd = NoCall

\* LDE, LDE_aux up to their call of LDE_launch: the allocation, domain_data
\* aligned to the end of the extended domain, the table of the device
OverlapCallLDE(entry, lg, b, ext_pow) ==
    /\ pc = "idle"
    /\ LET n == 2 ^ lg
           ext == n * (2 ^ b)
           size == IF entry = "LDE_aux" THEN ext + n ELSE ext
       IN  /\ call' = [entry |-> entry, lg_domain_size |-> lg, lg_blowup |-> b,
                       out |-> 0, in |-> ext - n,
                       gen_powers |-> "partial_group_gen_powers",
                       perform_shift |-> LaunchArgs(entry, ext_pow).perform_shift,
                       ext_pow |-> LaunchArgs(entry, ext_pow).ext_pow]
           /\ dev' = Vec([p \in 1 .. size |->
                            IF p > ext - n /\ p <= ext THEN p - (ext - n)
                            ELSE Uninit])
    /\ pc' = "launch"
    /\ UNCHANGED << host, input, i, ntt, err, status, ops, fwd >>

\* LDE_expand(stream, d_out, d_in, lg_domain_size, lg_blowup):
\* LDE_launch(stream, d_out, d_in, NULL, lg_domain_size, lg_blowup, false)
OverlapCallExpand(d_out, d_in, lg, b) ==
    /\ pc = "idle"
    /\ d_out + (2 ^ lg) * (2 ^ b) <= MemCells
    /\ d_in + 2 ^ lg <= MemCells
    /\ call' = [entry |-> "LDE_expand", lg_domain_size |-> lg, lg_blowup |-> b,
                out |-> d_out, in |-> d_in, gen_powers |-> "NULL",
                perform_shift |-> FALSE, ext_pow |-> FALSE]
    /\ dev' = Vec([p \in 1 .. MemCells |-> p])
    /\ pc' = "launch"
    /\ UNCHANGED << host, input, i, ntt, err, status, ops, fwd >>

\* LDE_launch: assert(lg_domain_size + lg_blowup <= MAX_LG_DOMAIN_SIZE),
\* then the launch
OverlapLaunch ==
    /\ pc = "launch"
    /\ pc' = IF call.lg_domain_size + call.lg_blowup <= MAX_LG_DOMAIN_SIZE
             THEN "kernel" ELSE "aborted"
    /\ UNCHANGED << call, host, input, dev, i, ntt, err, status, ops, fwd >>

\* KernelEntry testing only for a source that starts inside the destination
KernelEntry_InsideOnly ==
    /\ pc = "kernel"
    /\ LET n == 2 ^ call.lg_domain_size
           inside == call.in >= call.out /\ call.out + n * blowup > call.in
       IN  pc' = IF inside /\ call.out + n * (blowup - 1) # call.in
                 THEN "assert_failed" ELSE "loop"
    /\ UNCHANGED << call, host, input, dev, i, ntt, err, status, ops, fwd >>

\* the kernel up to its loop: if the pointers overlap,
\* assert(&out[domain_size * (blowup - 1)] == &in[0])
KernelEntry ==
    /\ pc = "kernel"
    /\ pc' = IF overlapping_data
                /\ call.out + (2 ^ call.lg_domain_size) * (blowup - 1) # call.in
             THEN "assert_failed" ELSE "loop"
    /\ UNCHANGED << call, host, input, dev, i, ntt, err, status, ops, fwd >>

\* the loop of the kernel, all threads: the table is read, through
\* gen_powers, when perform_shift is set
KernelLoop ==
    /\ pc = "loop"
    /\ dev' = LDE_launch(dev, call.out, call.in,
                         IF call.gen_powers = "NULL" THEN << >>
                         ELSE partial_group_gen_powers(FALSE),
                         call.lg_domain_size, call.lg_blowup,
                         call.perform_shift, call.ext_pow)
    /\ ops' = IF call.perform_shift THEN ops \cup {call.gen_powers} ELSE ops
    /\ pc' = "done"
    /\ UNCHANGED << call, host, input, i, ntt, err, status, fwd >>

NextOverlap ==
    \/ \E entry \in {"LDE", "LDE_aux"}, lg \in 0 .. MaxLg,
          b \in 0 .. MaxLgBlowup, ext_pow \in BOOLEAN :
          OverlapCallLDE(entry, lg, b, ext_pow)
    \/ \E d_out \in 0 .. MemCells - 1, d_in \in 0 .. MemCells - 1,
          lg \in 0 .. MaxLg, b \in 0 .. MaxLgBlowup :
          OverlapCallExpand(d_out, d_in, lg, b)
    \/ OverlapLaunch
    \/ KernelEntry
    \/ KernelLoop

SpecOverlap == InitOverlap /\ [][NextOverlap]_vars

----------------------------------------------------------------------------
(* The claims *)

Returned == pc = "done"

Succeeded == pc = "done" /\ status = "cudaSuccess"

\* the operations of a trace with a name in names
Only(trace, names) ==
    LET Named(o) == o.op \in names
    IN  SelectSeq(trace, Named)

OpNames(trace) == Vec([k \in 1 .. Len(trace) |-> trace[k].op])

IsPrefix(a, b) == Len(a) <= Len(b) /\ a = SubSeq(b, 1, Len(a))

\* allocation, copies, kernel launches
DeviceWork ==
    {"alloc", "HtoD", "DtoH", "bit_rev", "LDE_powers", "GS_NTT", "CT_NTT",
     "LDE_launch"}

\* the device steps that can raise
DeviceSteps == DeviceWork \cup {"select", "sync"}

\* C1: a successful Base(inout = [a, b], lg_domain_size = 1, NN, forward,
\* standard) leaves the host buffer equal to [a + b, a - b].
C1_KnownValue ==
    ( /\ Succeeded
      /\ call.entry = "Base"
      /\ call.lg_domain_size = 1
      /\ call.order = "NN"
      /\ call.direction = "forward"
      /\ call.type = "standard" )
    => host = << FAdd(input[1], input[2]), FSub(input[1], input[2]) >>

\* C2: a successful Base call with L >= 1 makes one copy to the device, one
\* run of NTT_internal, one copy to the host and then a synchronize, and the
\* buffer copied out is the transform applied once to the buffer copied in.
C2_OneTransform ==
    ( /\ Succeeded
      /\ call.entry = "Base"
      /\ call.lg_domain_size >= 1 )
    => /\ OpNames(Only(ops, {"HtoD", "NTT_internal", "DtoH", "sync"}))
            = << "HtoD", "NTT_internal", "DtoH", "sync" >>
       /\ host = NTT_internal(input, call.lg_domain_size, call.order,
                              call.direction, call.type, call.ext_pow)

\* the ordering pairs in which the forward call's output ordering is the
\* inverse call's input ordering
MatchingOrders ==
    { << "NN", "NN" >>, << "NR", "RN" >>, << "RN", "NR" >>, << "RR", "RR" >> }

\* C3: for L >= 1, Base(forward, standard) followed by Base(inverse,
\* standard) with a matching ordering pair returns the vector it was given,
\* in every element.
C3_RoundTrip ==
    ( /\ pc = "rt_inverse"
      /\ call.lg_domain_size >= 1
      /\ fwd.type = "standard"
      /\ call.type = "standard"
      /\ << fwd.order, call.order >> \in MatchingOrders )
    => host = input

C3_Witness ==
    /\ pc = "rt_inverse"
    /\ call.lg_domain_size = 2
    /\ fwd.type = "standard"
    /\ call.type = "standard"
    /\ fwd.order = "NR"
    /\ call.order = "RN"
    /\ \E j \in 1 .. Len(input) : input[j] # 0
    /\ host = input

\* the decision table: the bit reversals and the algorithm of each ordering
DecisionTable(order) ==
    CASE order = "NN" -> << "bit_rev", "CT_NTT" >>
      [] order = "NR" -> << "GS_NTT" >>
      [] order = "RN" -> << "CT_NTT" >>
      [] order = "RR" -> << "GS_NTT", "bit_rev" >>

\* C4: the bit reversals and the transform kernel that a run of NTT_internal
\* launches are those of the decision table for its ordering, in that
\* order, whatever the direction and the type: all of them once it has
\* returned, a prefix of them while it runs.
C4_DecisionTable ==
    LET InTable(name) == name \in {"bit_rev", "GS_NTT", "CT_NTT"}
        made == SelectSeq(ntt.steps, InTable)
    IN  /\ ntt.k > NTT_STEPS => made = DecisionTable(ntt.order)
        /\ ntt.k \in 1 .. NTT_STEPS => IsPrefix(made, DecisionTable(ntt.order))

C4_Witness ==
    /\ ntt.k > NTT_STEPS
    /\ ntt.order = "RR"
    /\ ntt.direction = "inverse"
    /\ ntt.type = "coset"
    /\ ntt.steps = << "GS_NTT", "LDE_powers", "bit_rev" >>

\* C5: the extended vector a successful LDE call writes to the host buffer
\* is the one LDE_aux writes for the same input, lg_domain_size, lg_blowup
\* and ext_pow.
C5_SameExtension ==
    ( /\ Succeeded
      /\ call.entry = "LDE" )
    => host = LDE_aux(input, call.lg_domain_size, call.lg_blowup, call.ext_pow)

\* C6: after a successful LDE_aux call the caller holds, besides the
\* extended values, the auxiliary vector of domain_size elements taken from
\* the output of the first transform (as that transform left it, or as the
\* bit_rev into aux_data wrote it): behind the extended values in its
\* buffer, or in device memory that is still allocated.
C6_AuxRetained ==
    ( /\ Succeeded
      /\ call.entry = "LDE_aux" )
    => LET stage1 == NTT_internal(input, call.lg_domain_size, "NR", "inverse",
                                  "standard", FALSE)
           aux == bit_rev(stage1, stage1, FALSE, call.lg_domain_size)
       IN  \/ /\ Len(host) = ext_domain_size + domain_size
              /\ SubSeq(host, ext_domain_size + 1, Len(host)) \in {stage1, aux}
           \/ /\ Len(dev) = ext_domain_size + domain_size
              /\ Region(dev, ext_domain_size, domain_size) \in {stage1, aux}

\* what C7 looks at in an operation
Stage(o) ==
    << o.op, o.ok, o.stream, o.order, o.direction, o.type, o.at, o.count,
       o.lg_blowup >>

\* C7: every successful LDE or LDE_aux call runs, in this order and on one
\* queue, the inverse standard NR transform of the domain_size region, the
\* spread of that region into the extended domain, the forward standard RN
\* transform of the extended domain, and then copies the extended domain
\* out; no stage is skipped or repeated.
C7_PipelineOrder ==
    ( /\ Succeeded
      /\ call.entry \in {"LDE", "LDE_aux"} )
    => LET n == domain_size
           ext == ext_domain_size
           made == Only(ops, {"NTT_internal", "GS_NTT", "CT_NTT", "LDE_launch",
                              "DtoH"})
       IN  Vec([k \in 1 .. Len(made) |-> Stage(made[k])]) =
             << << "NTT_internal", TRUE, "gpu", "NR", "inverse", "standard",
                   ext - n, n, 0 >>,
                << "GS_NTT", TRUE, "gpu", "-", "-", "-", ext - n, n, 0 >>,
                << "LDE_launch", TRUE, "gpu", "-", "-", "-", ext - n, n,
                   call.lg_blowup >>,
                << "NTT_internal", TRUE, "gpu", "RN", "forward", "standard",
                   0, ext, 0 >>,
                << "CT_NTT", TRUE, "gpu", "-", "-", "-", 0, ext, 0 >>,
                << "DtoH", TRUE, "gpu", "-", "-", "-", 0, ext, 0 >> >>

C7_Witness ==
    /\ Succeeded
    /\ call.entry = "LDE_aux"
    /\ call.lg_domain_size >= 1
    /\ call.lg_blowup >= 1
    /\ Len(host) = ext_domain_size

\* C8: when a device step raises an error the call returns a failure with
\* that error's code, no exception leaves the entry point (the synchronize
\* of the handler included), and the failed step is not made again.
C8_FailurePropagation ==
    /\ pc # "escaped"
    /\ (pc = "done" /\ err # "-") => status = err
    /\ \A k \in 1 .. Len(ops) :
          ~ops[k].ok =>
              \A m \in (k + 1) .. Len(ops) : ops[m].op \in {"free", "sync"}

\* the last device step of the call is a synchronize that completed
SyncedLast ==
    LET steps == Only(ops, DeviceSteps)
    IN  /\ Len(steps) > 0
        /\ steps[Len(steps)].op = "sync"
        /\ steps[Len(steps)].ok

\* C9 as claimed: on every path by which Base, LDE or LDE_aux returns a
\* status, for every L including 0, a synchronize was made in the call after
\* its last device operation and before the return.
C9_SyncBeforeReturn == Returned => SyncedLast

\* C9 as amended: on every path by which Base with L >= 1, LDE or LDE_aux
\* returns a status, the last device step of the call is a synchronize that
\* completed; Base with L = 0 returns without a device step of any kind.
C9_SyncBeforeReturn_Amended ==
    Returned =>
        IF call.entry = "Base" /\ call.lg_domain_size = 0
        THEN ops = << >>
        ELSE SyncedLast

C9_Witness ==
    /\ Returned
    /\ call.entry = "LDE"
    /\ status = "cudaErrorLaunchFailure"
    /\ \E k \in 1 .. Len(ops) : ops[k].op = "LDE_launch" /\ ~ops[k].ok
    /\ SyncedLast

\* C10: Base (for L >= 1), LDE and LDE_aux select the accelerator context
\* before their first allocation, copy or kernel launch.
C10_SelectFirst ==
    \A k \in 1 .. Len(ops) :
        ops[k].op \in DeviceWork =>
            \E j \in 1 .. (k - 1) : ops[j].op = "select" /\ ops[j].ok

\* C11: Base with lg_domain_size = 0 returns success at once for every
\* ordering, direction and type, leaves the host buffer as it was and makes
\* no device operation: no select, allocation, copy or launch.
C11_NoOp ==
    ( /\ call.entry = "Base"
      /\ call.lg_domain_size = 0 )
    => /\ pc = "done"
       /\ status = "cudaSuccess"
       /\ host = input
       /\ ops = << >>
       /\ dev = << >>

C11_Witness ==
    /\ pc = "done"
    /\ call.entry = "Base"
    /\ call.lg_domain_size = 0
    /\ call.order = "RR"
    /\ call.direction = "inverse"
    /\ call.type = "coset"
    /\ host = << 1 >>

C13_BitReversal ==
    Completed =>
        LET n == 2 ^ call.lg_domain_size
            old == Region(input, 0, n)
            out == Region(dev, call.d_out, n)
        IN  IF call.round = 1
            THEN \A k \in 0 .. n - 1 :
                    out[bit_rev_index(k, call.lg_domain_size) + 1] = old[k + 1]
            ELSE out = old

C13_Witness ==
    /\ Completed
    /\ call.round = 2
    /\ call.kernel = "bit_rev_permutation_z"
    /\ call.inplace
    /\ call.lg_domain_size = 4
    /\ call.Z_COUNT = 2
    /\ call.WARP_SZ = 4
    /\ dev = input

\* C14: for L >= 1, Base(forward, coset) followed by Base(inverse, coset)
\* with a matching ordering pair and the same coset_ext_pow returns the
\* vector it was given, in every element.
C14_CosetRoundTrip ==
    ( /\ pc = "rt_inverse"
      /\ call.lg_domain_size >= 1
      /\ fwd.type = "coset"
      /\ call.type = "coset"
      /\ fwd.ext_pow = call.ext_pow
      /\ << fwd.order, call.order >> \in MatchingOrders )
    => host = input

C14_Witness ==
    /\ pc = "rt_inverse"
    /\ call.lg_domain_size = 2
    /\ fwd.type = "coset"
    /\ call.type = "coset"
    /\ fwd.ext_pow
    /\ call.ext_pow
    /\ fwd.order = "RR"
    /\ call.order = "RR"
    /\ input[2] # 0
    /\ host = input

\* the evaluations on the domain of 2^(lg_domain_size + lg_blowup) points
\* of the polynomial of degree < 2^lg_domain_size that takes the values v
\* on the domain of 2^lg_domain_size points: interpolate, pad the
\* coefficients with zeros, evaluate, everything in natural order
Extension(v, lg_domain_size, lg_blowup) ==
    LET n == 2 ^ lg_domain_size
        coeffs == DFT(v, lg_domain_size, TRUE)
        padded == Vec([j \in 1 .. n * (2 ^ lg_blowup) |->
                          IF j <= n THEN coeffs[j] ELSE 0])
    IN  DFT(padded, lg_domain_size + lg_blowup, FALSE)

\* C15: a successful LDE with blowup exponent b >= 1 and no coset shift
\* requested returns, in natural order, the evaluations on the extended
\* domain of the polynomial of degree < n that its input defines.
C15_LDEContent ==
    ( /\ Succeeded
      /\ call.entry = "LDE"
      /\ call.lg_blowup >= 1
      /\ ~call.ext_pow )
    => /\ Len(host) = Len(input) * (2 ^ call.lg_blowup)
       /\ host = Extension(input, call.lg_domain_size, call.lg_blowup)

\* a vector of 2^lg elements read in, or written in, the ordering a letter
\* of the ordering code names: "N" as it is, "R" by bit-reversed index
InOrdering(letter, x, lg) ==
    IF letter = "R"
    THEN Vec([j \in 1 .. 2 ^ lg |-> x[bit_rev_index(j - 1, lg) + 1]])
    ELSE x

\* the letters of an ordering code: input ordering, output ordering
OrderingLetters(order) ==
    CASE order = "NN" -> << "N", "N" >>
      [] order = "NR" -> << "N", "R" >>
      [] order = "RN" -> << "R", "N" >>
      [] order = "RR" -> << "R", "R" >>

\* C16: for each ordering and each direction, NTT_internal hands its kernel
\* the data in the ordering the kernel expects and leaves the result in the
\* ordering the code declares: one standard NTT_internal takes a vector read
\* in the declared input ordering to its transform written in the declared
\* output ordering.
C16_OrderingCompatibility ==
    ( /\ pc = "rt_loop"
      /\ i = 1
      /\ call.type = "standard" )
    => dev = InOrdering(OrderingLetters(call.order)[2],
                        DFT(InOrdering(OrderingLetters(call.order)[1], host,
                                       call.lg_domain_size),
                            call.lg_domain_size, call.direction = "inverse"),
                        call.lg_domain_size)

\* element k of a vector in natural order times gen^k
CosetShift(x, lg, gen) ==
    Vec([j \in 1 .. 2 ^ lg |-> FMul(x[j], FPow(gen, j - 1))])

\* the flag NTT_internal passes to LDE_powers: bitrev before the kernel of a
\* forward transform, !bitrev after the kernel of an inverse one
FlagPassed(order, direction) ==
    IF direction = "forward" THEN SwitchOrder(order).bitrev
    ELSE ~SwitchOrder(order).bitrev

\* C17: in a coset transform, when the twiddle distribution has run, the
\* data is in the ordering its flag names and the element with natural
\* index k has been multiplied by generator^k: a forward call holds the
\* shifted input, an inverse call the shifted inverse transform of its
\* input, bit-reversed exactly when the flag is set.
C17_CosetStep ==
    ( /\ pc = "ntt"
      /\ call.entry = "Base"
      /\ i = 0
      /\ ntt.type = "coset"
      /\ ntt.k = (IF ntt.direction = "forward" THEN 3 ELSE 5) )
    => LET natural == InOrdering(OrderingLetters(ntt.order)[1], host, ntt.lg)
           shifted == IF ntt.direction = "forward"
                      THEN CosetShift(natural, ntt.lg, group_gen)
                      ELSE CosetShift(DFT(natural, ntt.lg, TRUE), ntt.lg,
                                      group_gen_inverse)
       IN  dev = InOrdering(IF FlagPassed(ntt.order, ntt.direction) THEN "R"
                            ELSE "N",
                            shifted, ntt.lg)

\* the cells of the source region
SourceCells == call.in .. (call.in + 2 ^ call.lg_domain_size - 1)

\* no cell of the aliased segment has been stored to before its load
NoWriteBeforeRead == \A c \in status \cap SourceCells : c \in ops

\* the stores of iteration iter end behind the start of the source region
ReachesSource(iter) == call.out + (iter + 1) * stride * blowup > call.in

\* C18 as stated: with the source at the end of the destination, in every
\* interleaving no cell of the aliased segment is written before it has
\* been read, and an iteration whose writes cannot reach the aliased
\* segment takes the block-local barrier.
C18_SpreadRaceFree ==
    overlapping_data =>
        /\ NoWriteBeforeRead
        /\ \A b \in fwd : ~ReachesSource(b[1]) => b[2] = "sync2"

\* C18 amended: with the source at the end of the destination, in every
\* interleaving no cell of the aliased segment is written before it has
\* been read; an iteration takes the block-local barrier exactly when its
\* writes cannot reach the aliased segment and the workers make at least
\* 2^lg_blowup iterations, and the grid-wide barrier otherwise.
C18_SpreadRaceFree_Amended ==
    overlapping_data =>
        /\ NoWriteBeforeRead
        /\ \A b \in fwd :
              b[2] = "sync2" <=> (~ReachesSource(b[1]) /\ iters >= blowup)

C18_Witness ==
    /\ overlapping_data
    /\ \A t \in Threads : pc[t] = "exit"
    /\ call.gridDim = 2
    /\ call.lg_domain_size = 2
    /\ call.lg_blowup = 1
    /\ fwd = { << 0, "sync2" >>, << 1, "grid_sync" >> }
    /\ SourceCells \subseteq status
    /\ SourceCells \subseteq ops

\* the launch is one LDE_launch makes for a domain below 1024 elements
LaunchedByLDE_launch ==
    call.gridDim = 1 /\ call.blockDim = 2 ^ call.lg_domain_size

\* C19: after LDE_launch, for disjoint or end-aligned buffers, every
\* destination cell has been written, out[i * 2^b] is the old in[i] times
\* generator^reverse_bits(i, L) when shifting and the old in[i] otherwise,
\* and every other cell is zero; domains smaller than the blowup included.
C19_SpreadResult ==
    ( /\ \A t \in Threads : pc[t] = "exit"
      /\ LaunchedByLDE_launch
      /\ ~call.ext_pow )
    => /\ status = call.out .. (call.out + (2 ^ call.lg_domain_size) * blowup - 1)
       /\ \A j \in 0 .. ((2 ^ call.lg_domain_size) * blowup - 1) :
             dev[call.out + j + 1] =
                 IF j % blowup = 0
                 THEN FMul(input[call.in + (j \div blowup) + 1],
                           IF call.perform_shift
                           THEN FPow(group_gen,
                                     bit_rev_index(j \div blowup, call.lg_domain_size))
                           ELSE 1)
                 ELSE 0

\* C20: with table[w][d] = generator^(d * WINDOW_SIZE^w),
\* get_intermediate_root(pow) is generator^pow for every pow below
\* 2^MAX_LG_DOMAIN_SIZE and reads only rows below WINDOW_NUM, and
\* get_intermediate_roots(idx0, idx1) returns for each index what
\* get_intermediate_root returns.
C20_RootPowerOracle ==
    pc = "looked_up" =>
        LET gen == IF call.intt THEN group_gen_inverse ELSE group_gen
        IN  /\ ntt.root = << FPow(gen, call.idx0), FPow(gen, call.idx1) >>
            /\ ntt.rows \subseteq 0 .. WINDOW_NUM - 1
            /\ ntt.roots = ntt.root

C20_Witness ==
    /\ pc = "looked_up"
    /\ call.idx0 = 2 ^ MAX_LG_DOMAIN_SIZE - 1
    /\ call.idx1 = WINDOW_SIZE + 1
    /\ call.intt
    /\ ntt.rows = 0 .. WINDOW_NUM - 1
    /\ ntt.roots[1] # ntt.roots[2]
    /\ ntt.roots = ntt.root

\* C21: for every domain size and each launch shape LDE_powers picks, the
\* workers launched are as many as the domain has elements, the kernel
\* infers lg_domain_size from the launch shape, no cell outside the domain
\* is touched, no cell is stored to more than once, and when the kernel
\* has finished every element idx has been multiplied once by the root of
\* pow = idx, or of reverse_bits(idx, L) when bitrev is set.
C21_TwiddleDistribution ==
    LET n == 2 ^ call.lg_domain_size
        gen == IF call.innt THEN group_gen_inverse ELSE group_gen
    IN  /\ call.gridDim * call.blockDim = n
        /\ lg2(call.gridDim * call.blockDim) = call.lg_domain_size
        /\ status \subseteq 0 .. n - 1
        /\ \A c \in DOMAIN ops : ops[c] <= 1
        /\ (\A t \in Threads : pc[t] = "exit") =>
              /\ \A idx \in 0 .. n - 1 :
                    /\ ops[idx] = 1
                    /\ dev[idx + 1] =
                          FMul(input[idx + 1],
                               FPow(gen, IF call.bitrev
                                         THEN bit_rev_index(idx, call.lg_domain_size)
                                         ELSE idx))
              /\ dev[n + 1] = input[n + 1]

C21_Witness ==
    /\ \A t \in Threads : pc[t] = "exit"
    /\ call.lg_domain_size = MAX_LG_DOMAIN_SIZE
    /\ call.gridDim = 2
    /\ call.blockDim = call.block_sz
    /\ call.bitrev
    /\ call.innt
    /\ dev[2] = FMul(input[2], FPow(group_gen_inverse, 4))
    /\ dev[2] # input[2]

\* C22: the extended-coset flag changes nothing on the transform path: for
\* every input, ordering, direction and type, what one NTT_internal of
\* Base leaves is what it leaves with coset_ext_pow inverted, and the
\* public LDE_powers leaves the same vector with ext_pow true and false.
C22_ExtPowInert ==
    ( /\ pc = "rt_loop"
      /\ i = 1 )
    => /\ dev = NTT_internal(host, call.lg_domain_size, call.order,
                             call.direction, call.type, ~call.ext_pow)
       /\ LDE_powers_public(host, call.lg_domain_size, TRUE)
             = LDE_powers_public(host, call.lg_domain_size, FALSE)

C22_Witness ==
    /\ pc = "rt_loop"
    /\ i = 1
    /\ call.type = "coset"
    /\ call.ext_pow
    /\ call.lg_domain_size = 2
    /\ call.order = "NR"
    /\ host[4] # 0
    /\ dev = NTT_internal(host, 2, "NR", call.direction, "coset", FALSE)
    /\ dev # NTT_internal(host, 2, "NR", call.direction, "standard", FALSE)
    /\ LDE_powers_public(host, 2, TRUE) # host

\* the workers of a finished kernel have all made iters iterations, and
\* no iteration has taken both kinds of barrier
BarriersUniform ==
    /\ \A b1 \in fwd, b2 \in fwd : b1[1] = b2[1] => b1[2] = b2[2]
    /\ \A t \in Threads : i[t] <= iters /\ (pc[t] = "exit" <=> i[t] = iters)
    /\ \A t \in Threads : pc[t] = "grid_sync" =>
          \A u \in Threads :
              /\ i[u] <= i[t]
              /\ i[u] = i[t] => pc[u] \notin {"sync2", "store", "exit"}

\* C23: in every run of LDE_spread_distribute_powers all workers make the
\* same number of iterations and take the same barrier in each of them,
\* and under fair scheduling every worker eventually finishes.
C23_SpreadTerminates ==
    /\ []BarriersUniform
    /\ <>(\A t \in Threads : pc[t] = "exit")

C23_Witness ==
    /\ \A t \in Threads : pc[t] = "exit" /\ i[t] = 2
    /\ call.gridDim = 2
    /\ call.blockDim = 1
    /\ call.lg_domain_size = 2
    /\ call.lg_blowup = 0
    /\ overlapping_data
    /\ { b[2] : b \in fwd } = {"grid_sync"}

\* the cells of the source and of the destination of the launch
SourceRegion == call.in .. (call.in + 2 ^ call.lg_domain_size - 1)

DestinationRegion ==
    call.out .. (call.out + (2 ^ call.lg_domain_size) * (2 ^ call.lg_blowup) - 1)

EndAligned ==
    call.in = call.out + (2 ^ call.lg_domain_size) * (2 ^ call.lg_blowup - 1)

\* C24: the kernel's assertion fails exactly for launches whose source and
\* destination share a cell without the source being end-aligned, a source
\* starting before the destination among them; it never fails in a launch
\* made by LDE or LDE_aux, whose source is end-aligned; and a kernel
\* launched without perform_shift, as by LDE_expand, has not read through
\* the table pointer.
C24_OverlapPrecondition ==
    /\ pc = "assert_failed" =>
          SourceRegion \cap DestinationRegion # {} /\ ~EndAligned
    /\ pc \in {"loop", "done"} =>
          (SourceRegion \cap DestinationRegion # {} => EndAligned)
    /\ (pc \notin {"idle", "launch"} /\ call.entry \in {"LDE", "LDE_aux"}) =>
          EndAligned /\ pc # "assert_failed"
    /\ (pc \in {"loop", "done"} /\ SourceRegion \cap DestinationRegion # {})
          => call.in >= call.out
    /\ (pc = "done" /\ ~call.perform_shift) => ops = {}
    /\ call.entry = "LDE_expand" => ~call.perform_shift /\ "NULL" \notin ops

C24_Witness ==
    /\ pc = "assert_failed"
    /\ call.entry = "LDE_expand"
    /\ call.in < call.out
    /\ call.in + 2 ^ call.lg_domain_size > call.out
    /\ call.lg_blowup = 1

============================================================================
